---------------------------- MODULE Spec2Model ----------------------------
(***************************************************************************)
(* Model of the adaptive language-learning backend:                        *)
(*   - the FSRS v4 scheduler            (src/api/fsrs.py)                  *)
(*   - the adaptive placement engine    (src/api/placement_cat.py)         *)
(*   - the HTTP handlers that drive them (src/api/main.py)                 *)
(*                                                                         *)
(* Real numbers are carried in fixed point.  Scheduler quantities          *)
(* (stability, difficulty, the weights w) use SCALE = 10^4, which holds    *)
(* the four decimals of the weight vector exactly.  Time is counted in     *)
(* minutes.                                                                *)
(***************************************************************************)
EXTENDS Integers, Sequences, FiniteSets, TLC

-----------------------------------------------------------------------------
(* Fixed-point arithmetic, scale 10^4                                      *)

SCALE == 10000

\* value at which products saturate (100000.0); every use is followed by a
\* clamp to maximum_interval, which is smaller
FxSat == 1000000000

\* ln 2
LN2 == 6931

Abs(x) == IF x < 0 THEN 0 - x ELSE x

Max2(a, b) == IF a >= b THEN a ELSE b

Min2(a, b) == IF a <= b THEN a ELSE b

\* a * b for non-negative fixed-point a, b, saturating at FxSat
MulNat(a, b) ==
  LET ah == a \div SCALE
      al == a % SCALE
      bh == b \div SCALE
      bl == b % SCALE
  IN  IF (ah + 1) > (100000 \div (bh + 1))
      THEN FxSat
      ELSE ah * bh * SCALE + ah * bl + al * bh + (al * bl) \div SCALE

\* a * b for signed fixed-point a, b
FxMul(a, b) ==
  LET m == MulNat(Abs(a), Abs(b))
  IN  IF (a < 0) = (b < 0) THEN m ELSE 0 - m

RECURSIVE Pow2(_)
Pow2(n) == IF n <= 0 THEN 1 ELSE 2 * Pow2(n - 1)

RECURSIVE ExpSeries(_, _, _, _)
\* sum of the Taylor series of exp(r), 0 <= r < ln 2
ExpSeries(r, k, term, acc) ==
  IF term = 0 \/ k > 12
  THEN acc
  ELSE LET t == (term * r) \div (SCALE * k)
       IN  ExpSeries(r, k + 1, t, acc + t)

\* math.exp(y)
FxExp(y) ==
  LET n == y \div LN2
      r == y - n * LN2
      e == ExpSeries(r, 1, SCALE, SCALE)
  IN  IF n >= 17 THEN FxSat
      ELSE IF n >= 0 THEN e * Pow2(n)
      ELSE IF n <= -30 THEN 0
      ELSE e \div Pow2(0 - n)

RECURSIVE Log2Floor(_)
\* greatest n with 2^n * SCALE <= x, for x >= SCALE
Log2Floor(x) == IF x < 2 * SCALE THEN 0 ELSE 1 + Log2Floor(x \div 2)

RECURSIVE Log2Up(_)
\* least n with x * 2^n >= SCALE, for 0 < x
Log2Up(x) == IF x >= SCALE THEN 0 ELSE 1 + Log2Up(2 * x)

\* ln(m) for SCALE <= m < 2*SCALE, as 2 * atanh((m-1)/(m+1))
LnMantissa(m) ==
  LET z  == ((m - SCALE) * SCALE) \div (m + SCALE)
      z2 == (z * z) \div SCALE
      z3 == (z * z2) \div SCALE
      z5 == (z3 * z2) \div SCALE
      z7 == (z5 * z2) \div SCALE
      z9 == (z7 * z2) \div SCALE
  IN  2 * (z + z3 \div 3 + z5 \div 5 + z7 \div 7 + z9 \div 9)

\* math.log(x); x > 0 for every card the scheduler produces (math.log raises
\* ValueError otherwise)
FxLn(x) ==
  IF x <= 0 THEN 0 - 15 * SCALE
  ELSE IF x >= SCALE
  THEN LET n == Log2Floor(x) IN n * LN2 + LnMantissa(x \div Pow2(n))
  ELSE LET n == Log2Up(x)    IN LnMantissa(x * Pow2(n)) - n * LN2

\* math.pow(x, p), x > 0
FxPow(x, p) == FxExp((p * FxLn(x)) \div SCALE)

\* a / b for non-negative fixed-point a and positive b, a <= b
FxRatio(a, b) ==
  LET k == 1 + (Max2(a, b) \div 200000)
  IN  ((a \div k) * SCALE) \div Max2(1, b \div k)


-----------------------------------------------------------------------------
(* FSRS v4 scheduler: src/api/fsrs.py                                      *)

\* Rating
AGAIN == 1
HARD == 2
GOOD == 3
EASY == 4
Rating == {AGAIN, HARD, GOOD, EASY}

\* State
State == {"NEW", "LEARNING", "REVIEW", "RELEARNING"}

\* last_review = None
NoReview == -1

MinutesPerDay == 1440

\* FSRS.w, at SCALE
W == << 4072, 11829, 31262, 154722, 72102, 5316, 10651, 234, 16160, 1544,
        10824, 19813, 953, 2975, 22042, 2407, 29466, 5034, 16567 >>

\* self.w[i], zero-based as in the source
w(i) == W[i + 1]

learning_steps_short == << 1, 5 >>

learning_steps_slow == << 10, 10 >>

\* self.learning_steps, minutes
learning_steps == << 1, 10 >>

\* self.relearning_steps, minutes
relearning_steps == << 10 >>

graduating_interval_good == 1

graduating_interval_easy_short == graduating_interval_good + 2

graduating_interval_easy == 4

maximum_interval == 36500

\* self.hard_interval_factor = 1.2, at SCALE
hard_interval_factor == 12000

init_card_counted(t) ==
  [ due |-> t, stability |-> 0, difficulty |-> 0, elapsed_days |-> 0,
    scheduled_days |-> 0, reps |-> 1, lapses |-> 0, state |-> "NEW",
    last_review |-> NoReview ]

\* FSRS.init_card
init_card(t) ==
  [ due |-> t, stability |-> 0, difficulty |-> 0, elapsed_days |-> 0,
    scheduled_days |-> 0, reps |-> 0, lapses |-> 0, state |-> "NEW",
    last_review |-> NoReview ]

\* FSRS._init_stability
init_stability(rating) == Max2(SCALE \div 10, w(rating - 1))

\* FSRS._init_difficulty
init_difficulty(rating) ==
  IF rating = EASY
  THEN Max2(SCALE, w(4) - w(7))
  ELSE Max2(SCALE, w(4) - w(rating + 3))

\* FSRS._retrievability: (1 + t / (9 S))^(-1) = S / (S + t / 9)
retrievability(c, elapsed_days) ==
  IF c.stability <= 0
  THEN 0
  ELSE FxRatio(c.stability, c.stability + (elapsed_days * SCALE) \div 9)

\* FSRS._next_stability
next_stability(c, elapsed_days, rating) ==
  LET R == retrievability(c, elapsed_days)
      stability ==
        IF rating = AGAIN
        THEN FxMul(FxMul(FxMul(w(8), FxPow(c.difficulty, 0 - w(9))),
                         FxPow(c.stability + SCALE, w(10)) - SCALE),
                   FxExp(FxMul(SCALE - R, w(11))))
        ELSE FxMul(c.stability,
                   FxMul(FxMul(FxMul(FxMul(FxExp(w(12)), 11 * SCALE - c.difficulty),
                                     FxPow(c.stability, 0 - w(13))),
                               FxExp((rating - 3) * w(14)) - SCALE),
                         R) + SCALE)
  IN  Max2(SCALE \div 10, Min2(stability, maximum_interval * SCALE))

\* next_difficulty without the clamp to [1, 10]
next_difficulty_unclamped(c, rating) ==
  c.difficulty - w(15) * (rating - 3)
    + FxMul(w(16), init_difficulty(GOOD) - c.difficulty)

\* FSRS._next_difficulty
next_difficulty(c, rating) ==
  LET next_d == c.difficulty - w(15) * (rating - 3)
      mean_reversion == FxMul(w(16), init_difficulty(GOOD) - c.difficulty)
  IN  Max2(SCALE, Min2(10 * SCALE, next_d + mean_reversion))

\* int(x) of a non-negative fixed-point x
IntPart(x) == x \div SCALE

\* max(0, (now - card.last_review).days) if card.last_review else 0
ElapsedDays(c, t) ==
  IF c.last_review = NoReview
  THEN 0
  ELSE Max2(0, (t - c.last_review) \div MinutesPerDay)

\* FSRS._repeat_new_card, the entry of the returned dict for one rating
repeat_new_card(c, t, rating) ==
  LET new_card ==
        [ due |-> t,
          stability |-> init_stability(rating),
          difficulty |-> init_difficulty(GOOD),
          elapsed_days |-> 0,
          scheduled_days |-> 0,
          reps |-> 1,
          lapses |-> IF rating = AGAIN THEN 1 ELSE 0,
          state |-> IF rating = AGAIN THEN "LEARNING" ELSE "REVIEW",
          last_review |-> t ]
  IN  CASE rating = AGAIN ->
             [new_card EXCEPT !.due = t + learning_steps[1],
                              !.scheduled_days = 0]
        [] rating = HARD ->
             [new_card EXCEPT !.due = t + learning_steps[Len(learning_steps)],
                              !.scheduled_days = 0]
        [] rating = GOOD ->
             [new_card EXCEPT !.due = t + graduating_interval_good * MinutesPerDay,
                              !.scheduled_days = graduating_interval_good]
        [] OTHER ->
             [new_card EXCEPT !.due = t + graduating_interval_easy * MinutesPerDay,
                              !.scheduled_days = graduating_interval_easy,
                              !.difficulty = init_difficulty(EASY)]

\* FSRS._repeat_learning_card, the entry of the returned dict for one rating
repeat_learning_card(c, t, rating) ==
  LET elapsed_days == ElapsedDays(c, t)
      new_card ==
        [ due |-> c.due,
          stability |-> c.stability,
          difficulty |-> c.difficulty,
          elapsed_days |-> elapsed_days,
          scheduled_days |-> c.scheduled_days,
          reps |-> c.reps + 1,
          lapses |-> c.lapses,
          state |-> c.state,
          last_review |-> t ]
      s2 == next_stability(c, elapsed_days, rating)
      d2 == next_difficulty(c, rating)
  IN  CASE rating = AGAIN ->
             [new_card EXCEPT !.due = t + learning_steps[1],
                              !.scheduled_days = 0,
                              !.lapses = c.lapses + 1]
        [] rating \in {HARD, GOOD} ->
             IF c.state = "LEARNING"
             THEN LET interval == IF rating = GOOD
                                  THEN graduating_interval_good ELSE 1
                  IN  [new_card EXCEPT !.state = "REVIEW",
                                       !.due = t + interval * MinutesPerDay,
                                       !.scheduled_days = interval]
             ELSE LET interval ==
                        IF rating = HARD
                        THEN Max2(1, IntPart(FxMul(s2, hard_interval_factor)))
                        ELSE Max2(1, IntPart(s2))
                  IN  [new_card EXCEPT !.state = "REVIEW",
                                       !.stability = s2,
                                       !.difficulty = d2,
                                       !.due = t + interval * MinutesPerDay,
                                       !.scheduled_days = interval]
        [] OTHER ->
             IF c.state = "LEARNING"
             THEN LET interval == graduating_interval_easy
                  IN  [new_card EXCEPT !.state = "REVIEW",
                                       !.difficulty = init_difficulty(EASY),
                                       !.due = t + interval * MinutesPerDay,
                                       !.scheduled_days = interval]
             ELSE LET interval == Max2(graduating_interval_easy, IntPart(s2))
                  IN  [new_card EXCEPT !.state = "REVIEW",
                                       !.stability = s2,
                                       !.difficulty = d2,
                                       !.due = t + interval * MinutesPerDay,
                                       !.scheduled_days = interval]

\* an interval that is left as computed
clip_interval_missing(interval) == interval

\* interval = min(interval, self.maximum_interval) in _repeat_review_card
clip_interval(interval) == Min2(interval, maximum_interval)

\* FSRS._repeat_review_card, the entry of the returned dict for one rating
repeat_review_card(c, t, rating) ==
  LET elapsed_days == ElapsedDays(c, t)
      new_card ==
        [ due |-> c.due,
          stability |-> c.stability,
          difficulty |-> c.difficulty,
          elapsed_days |-> elapsed_days,
          scheduled_days |-> c.scheduled_days,
          reps |-> c.reps + 1,
          lapses |-> c.lapses,
          state |-> c.state,
          last_review |-> t ]
      s2 == next_stability(c, elapsed_days, rating)
      d2 == next_difficulty(c, rating)
  IN  IF rating = AGAIN
      THEN [new_card EXCEPT !.state = "RELEARNING",
                            !.due = t + relearning_steps[1],
                            !.scheduled_days = 0,
                            !.lapses = c.lapses + 1,
                            !.stability = s2,
                            !.difficulty = d2]
      ELSE LET raw == IF rating = HARD
                      THEN Max2(1, IntPart(FxMul(s2, hard_interval_factor)))
                      ELSE Max2(1, IntPart(s2))
               interval == clip_interval(raw)
           IN  [new_card EXCEPT !.stability = s2,
                                !.difficulty = d2,
                                !.due = t + interval * MinutesPerDay,
                                !.scheduled_days = interval]

repeat_as_new(c, t, rating) ==
  IF c.state \in {"NEW", "LEARNING", "RELEARNING"}
  THEN repeat_new_card(c, t, rating)
  ELSE repeat_review_card(c, t, rating)

\* FSRS.repeat followed by the lookup scheduled_cards[rating]
repeat(c, t, rating) ==
  IF c.state = "NEW"
  THEN repeat_new_card(c, t, rating)
  ELSE IF c.state \in {"LEARNING", "RELEARNING"}
  THEN repeat_learning_card(c, t, rating)
  ELSE repeat_review_card(c, t, rating)

\* schedule_card
schedule_card(c, rating, t) == repeat(c, t, rating)


-----------------------------------------------------------------------------
(* Fixed-point arithmetic, scale 10^8, for the placement engine            *)

PSCALE == 100000000

\* base of the two limbs of a 10^8 fixed-point number
PLimb == 10000

\* ln 2 at PSCALE
PLN2 == 69314718

\* a * b for non-negative a, b at PSCALE (product below 21.0)
PMulNat(a, b) ==
  LET ah == a \div PLimb
      al == a % PLimb
      bh == b \div PLimb
      bl == b % PLimb
  IN  ah * bh + (ah * bl + al * bh) \div PLimb + (al * bl) \div PSCALE

\* a * b for signed a, b at PSCALE
PMul(a, b) ==
  LET m == PMulNat(Abs(a), Abs(b))
  IN  IF (a < 0) = (b < 0) THEN m ELSE 0 - m

RECURSIVE PLongDiv(_, _, _, _)
\* the digits of r / b after the point, r < b
PLongDiv(r, b, digits, acc) ==
  IF digits = 0
  THEN acc
  ELSE PLongDiv((r * 10) % b, b, digits - 1, acc * 10 + (r * 10) \div b)

\* a / b at PSCALE, for 0 <= a <= b, 0 < b <= 2.0
PDiv(a, b) ==
  IF a >= b THEN PSCALE ELSE PLongDiv(a, b, 8, 0)

RECURSIVE PExpSeries(_, _, _, _)
\* sum of the Taylor series of exp(r), 0 <= r < ln 2
PExpSeries(r, k, term, acc) ==
  IF term = 0 \/ k > 16
  THEN acc
  ELSE LET t == PMulNat(term, r) \div k
       IN  PExpSeries(r, k + 1, t, acc + t)

\* math.exp(y) for y <= 0
PExpNeg(y) ==
  LET n == y \div PLN2
      r == y - n * PLN2
      e == PExpSeries(r, 1, PSCALE, PSCALE)
  IN  IF n <= -30 THEN 0 ELSE e \div Pow2(0 - n)

-----------------------------------------------------------------------------
(* Placement engine: src/api/placement_cat.py                              *)

\* PlacementCAT.cefr_levels, in the insertion order of the dict
CefrOrder == << "A1", "A2", "B1", "B2", "C1", "C2" >>

\* PlacementCAT.cefr_levels[level], at PSCALE
cefr_levels(level) ==
  CASE level = "A1" -> -2 * PSCALE
    [] level = "A2" -> -1 * PSCALE
    [] level = "B1" -> 0
    [] level = "B2" -> 1 * PSCALE
    [] level = "C1" -> 2 * PSCALE
    [] level = "C2" -> 3 * PSCALE

CefrSet == { CefrOrder[i] : i \in 1..Len(CefrOrder) }

\* self.initial_theta = 0.0
initial_theta == 0

\* self.initial_se = 1.0
initial_se == PSCALE

\* self.target_se = 0.3
target_se == 30000000

max_items == 12

min_items == 7

\* discrimination = 1.5
discrimination == 150000000

\* lower and upper bound of theta in update_ability
theta_lo == -3 * PSCALE

theta_hi_open == 5 * PSCALE

theta_hi == 4 * PSCALE

\* minimum SE in update_ability (0.1)
se_floor == 10000000

\* SE reduction per item (0.85)
se_decay_slow == PSCALE - 5000000

se_decay == 85000000

\* base_learning_rate = 0.5
base_learning_rate_before == 3 * (PSCALE \div 10)

base_learning_rate == 50000000

\* no claimed level, no final CEFR (Python None, SQL NULL)
None == "None"

\* no item (Python None where an item dict is expected)
NoItem == [ id |-> << "none", 0 >>, type |-> "none", theta |-> 0 ]

\* PlacementCAT.start_session
start_session(user_claimed_level) ==
  [ theta |-> IF user_claimed_level # None /\ user_claimed_level \in CefrSet
              THEN cefr_levels(user_claimed_level)
              ELSE initial_theta,
    se |-> initial_se,
    items_completed |-> 0,
    is_complete |-> FALSE ]

\* PlacementCAT._probability_correct: 1 / (1 + exp(-a (theta - b))).
\* For a negative exponent the quotient is taken as e / (1 + e) with
\* e = exp(exponent), the same number, so that exp stays below 1.
\* math.exp cannot overflow for the item difficulties of the model.
probability_correct(theta, difficulty, a) ==
  LET exponent == PMul(a, theta - difficulty)
  IN  IF exponent >= 0
      THEN PDiv(PSCALE, PSCALE + PExpNeg(0 - exponent))
      ELSE LET e == PExpNeg(exponent) IN PDiv(e, PSCALE + e)

\* PlacementCAT._item_information, discrimination = 1.5
item_information(theta, item_theta) ==
  LET prob == probability_correct(theta, item_theta, discrimination)
  IN  PMul(PMul(PMul(discrimination, discrimination), prob), PSCALE - prob)

\* PlacementCAT.update_ability, returns <<new_theta, new_se>>
update_ability(current_theta, current_se, item_theta, is_correct, confidence) ==
  LET prob_correct == probability_correct(current_theta, item_theta, discrimination)
      new_theta ==
        IF is_correct
        THEN current_theta
               + PMul(PMul(base_learning_rate, PSCALE - prob_correct), confidence)
        ELSE current_theta
               - 2 * PMul(PMul(base_learning_rate, prob_correct), confidence)
      new_se == PMul(current_se, se_decay)
  IN  << Max2(theta_lo, Min2(theta_hi, new_theta)), Max2(se_floor, new_se) >>

should_stop_flipped(se, items_completed) ==
  \/ se <= target_se /\ items_completed >= min_items
  \/ items_completed <= max_items

\* PlacementCAT.should_stop
should_stop(se, items_completed) ==
  \/ se <= target_se /\ items_completed >= min_items
  \/ items_completed >= max_items

closer_or_equal(distance, min_distance) ==
  min_distance = -1 \/ distance <= min_distance

\* distance < min_distance in get_final_cefr
closer(distance, min_distance) ==
  min_distance = -1 \/ distance < min_distance

RECURSIVE FinalCefrLoop(_, _, _, _)
\* the for loop of get_final_cefr; min_distance = -1 stands for float('inf')
FinalCefrLoop(theta, i, closest_level, min_distance) ==
  IF i > Len(CefrOrder)
  THEN closest_level
  ELSE LET distance == Abs(theta - cefr_levels(CefrOrder[i]))
       IN  IF closer(distance, min_distance)
           THEN FinalCefrLoop(theta, i + 1, CefrOrder[i], distance)
           ELSE FinalCefrLoop(theta, i + 1, closest_level, min_distance)

\* PlacementCAT.get_final_cefr
get_final_cefr(theta) == FinalCefrLoop(theta, 1, "B1", -1)

more_informative_or_equal(information, max_information) ==
  information >= max_information

\* information > max_information in select_next_item
more_informative(information, max_information) ==
  information > max_information

RECURSIVE SelectLoop(_, _, _, _, _)
\* the for loop of select_next_item over available_items[i..]
SelectLoop(current_theta, available_items, i, best_item, max_information) ==
  IF i > Len(available_items)
  THEN best_item
  ELSE LET information == item_information(current_theta, available_items[i].theta)
       IN  IF more_informative(information, max_information)
           THEN SelectLoop(current_theta, available_items, i + 1,
                           available_items[i], information)
           ELSE SelectLoop(current_theta, available_items, i + 1,
                           best_item, max_information)

\* PlacementCAT.select_next_item; available_items is a sequence of
\* [id, type, theta] records, the result an item or NoItem
select_next_item(current_theta, available_items) ==
  IF available_items = << >>
  THEN NoItem
  ELSE SelectLoop(current_theta, available_items, 1, NoItem, 0)


-----------------------------------------------------------------------------
(* State                                                                   *)

VARIABLES
  now, card, prevCard, lastRating,
  cards, placement_sessions, placement_responses, simple_users,
  response, answers_in_flight,
  user_cards, review_log, reviews_in_flight,
  args, result,
  sender

fsrsVars == << now, card, prevCard, lastRating >>

placementVars ==
  << cards, placement_sessions, placement_responses, simple_users, response,
     answers_in_flight >>

reviewVars == << user_cards, review_log, reviews_in_flight >>

functionVars == << args, result >>

clientVars == << sender >>

vars == << fsrsVars, placementVars, reviewVars, functionVars, clientVars >>

-----------------------------------------------------------------------------
(* Columns of type REAL: a float rounded to 24 significant bits            *)

\* 10^8 / 2^8: at PSCALE the float32 values of [2^k, 2^(k+1)) are the
\* multiples of Real4Unit / 2^(15-k)
Real4Unit == 390625

RECURSIVE Real4Shift(_)
\* 15 - k for 2^k <= v / PSCALE < 2^(k+1), v >= PSCALE / 8
Real4Shift(v) == IF v >= 4 * PSCALE THEN 13 ELSE 1 + Real4Shift(2 * v)

RECURSIVE Real4Scale(_, _, _)
\* << q, r >> with (q + r / Real4Unit) multiplied by 2^m
Real4Scale(q, r, m) ==
  IF m = 0
  THEN << q, r >>
  ELSE Real4Scale(2 * q + (IF 2 * r >= Real4Unit THEN 1 ELSE 0),
                  (2 * r) % Real4Unit, m - 1)

\* v >= 0 rounded to the nearest float32; below 1/8 the float32 values are
\* less than 1.5 units of PSCALE apart and v is kept
Real4Nat(v) ==
  IF v < PSCALE \div 8
  THEN v
  ELSE LET m == Real4Shift(v)
           D == Pow2(m)
           qr == Real4Scale(v \div Real4Unit, v % Real4Unit, m)
           n == qr[1] + (IF 2 * qr[2] > Real4Unit THEN 1 ELSE 0)
           nh == n \div D
           nl == n % D
           h == nl \div 512
           l == nl % 512
           E == D \div 512
           qa == (h * Real4Unit) \div E
           ra == (h * Real4Unit) % E
       IN  nh * Real4Unit + qa + (ra * 512 + l * Real4Unit + D \div 2) \div D

\* a Python float stored in a REAL column and read back
Real4(v) == IF v < 0 THEN 0 - Real4Nat(0 - v) ELSE Real4Nat(v)

-----------------------------------------------------------------------------
(* Placement handlers: src/api/main.py                                     *)

\* learners
Users == { "ann" }

\* ids of the rows the cards table may hold
CardIds == { << "card", 1 >>, << "card", 2 >> }

\* the row of a card: card 1 is a Russian placement item with theta 0.5,
\* card 2 a Russian card whose payload has no 'theta' key, cards 4 and 5
\* Russian cards with the theta of B2 and of A2, card 6 a card of another
\* language
CardRow(id) ==
  CASE id[2] = 1 ->
         [ language |-> "ru", type |-> "vocabulary", has_theta |-> TRUE,
           theta |-> PSCALE \div 2 ]
    [] id[2] = 4 ->
         [ language |-> "ru", type |-> "vocabulary", has_theta |-> TRUE,
           theta |-> PSCALE ]
    [] id[2] = 5 ->
         [ language |-> "ru", type |-> "vocabulary", has_theta |-> TRUE,
           theta |-> 0 - PSCALE ]
    [] id[2] = 6 ->
         [ language |-> "es", type |-> "vocabulary", has_theta |-> TRUE,
           theta |-> 0 ]
    [] OTHER ->
         [ language |-> "ru", type |-> "sentence", has_theta |-> FALSE,
           theta |-> 0 ]

\* card_payload.get('theta', 0.0)
PayloadTheta(id) == IF CardRow(id).has_theta THEN CardRow(id).theta ELSE 0

\* claimed_level of placement/start
ClaimedLevels == { None, "A2" }

\* user_answer of placement/answer
Answers == { "1", "4" }

\* user_answer of placement/answer along a whole session
WalkAnswers == { "4" }

\* last_placement_date IS NULL
NoDate == -1

\* no row for a username in simple_users
NoRow == [ cefr_level |-> None, theta_estimate |-> 0, last_placement_date |-> NoDate ]

\* final_theta IS NULL
NullTheta == theta_lo - PSCALE

\* session ids a client may send: the session of the walk and an unknown one
SessionIds == { 1, 2 }

\* number of rows of placement_responses
MaxAnswers == 9

\* no response yet
NoResponse ==
  [ op |-> "none", ok |-> TRUE, detail |-> "", session_id |-> 0,
    complete |-> FALSE, item |-> NoItem.id, items_completed |-> -1,
    cefr_level |-> None, theta_estimate |-> NullTheta, updated |-> -1 ]

\* raise HTTPException(status_code=500, detail=...): every HTTPException
\* raised inside the try block is caught and raised again with status 500
HttpError(op, session_id, detail) ==
  [ NoResponse EXCEPT !.op = op, !.ok = FALSE, !.detail = detail,
                      !.session_id = session_id ]

\* SELECT id, type, payload FROM cards WHERE language = 'ru'
\*   AND payload ? 'theta' AND id NOT IN excluded
PlacementPool(excluded) ==
  { id \in cards : /\ CardRow(id).language = "ru"
                   /\ CardRow(id).has_theta
                   /\ id \notin excluded }

\* ORDER BY RANDOM() LIMIT limit: the orders in which rows may come back
RandomOrders(rows, limit) ==
  LET n == Min2(limit, Cardinality(rows))
  IN  { f \in [1..n -> rows] : \A i, j \in 1..n : i # j => f[i] # f[j] }

\* available_items built from the rows of the pool query
AvailableItems(order) ==
  [ i \in 1..Len(order) |->
      [ id |-> order[i], type |-> CardRow(order[i]).type,
        theta |-> PayloadTheta(order[i]) ] ]

\* int(request.user_answer), with ValueError mapped to 2
UserRating(user_answer) ==
  CASE user_answer = "0" -> 0
    [] user_answer = "1" -> 1
    [] user_answer = "2" -> 2
    [] user_answer = "3" -> 3
    [] user_answer = "4" -> 4
    [] user_answer = "5" -> 5
    [] OTHER -> 2

\* rating -> is_correct
IsCorrect(user_rating) ==
  IF user_rating = 1 THEN FALSE
  ELSE IF user_rating = 2 THEN FALSE
  ELSE TRUE

\* rating -> confidence
Confidence(user_rating) ==
  IF user_rating = 1 THEN PSCALE
  ELSE IF user_rating = 2 THEN 70000000
  ELSE IF user_rating = 3 THEN 80000000
  ELSE PSCALE

rollback_missing(before, written) == written

\* with conn: the table after a block that raised, its writes rolled back
rollback(before, written) == before

\* start_placement_test with the rows of its pool query in the given order
start_placement_test(username, language, claimed_level, order) ==
  LET session_data == start_session(claimed_level)
      session_id == Len(placement_sessions) + 1
      row == [ id |-> session_id, user_id |-> username, language |-> language,
               current_theta |-> session_data.theta,
               theta_se |-> session_data.se,
               items_completed |-> session_data.items_completed,
               is_complete |-> FALSE, final_cefr |-> None,
               final_theta |-> NullTheta ]
      available_items == AvailableItems(order)
      selected_item == select_next_item(session_data.theta, available_items)
  IN  IF available_items = << >>
      THEN /\ response' = HttpError("start", 0, "No placement items available")
           /\ placement_sessions' =
                rollback(placement_sessions, Append(placement_sessions, row))
      ELSE IF selected_item = NoItem
      THEN /\ response' = HttpError("start", 0, "No suitable item found")
           /\ placement_sessions' =
                rollback(placement_sessions, Append(placement_sessions, row))
      ELSE /\ placement_sessions' = Append(placement_sessions, row)
           /\ response' = [ NoResponse EXCEPT !.op = "start",
                                              !.session_id = session_id,
                                              !.item = selected_item.id,
                                              !.items_completed = 0,
                                              !.cefr_level =
                                                 get_final_cefr(session_data.theta) ]

\* the id of the next row of placement_responses: a key of that table,
\* never the id of a card
NextResponseId == << "response", Len(placement_responses) + 1 >>

\* ids selected by SELECT id FROM placement_responses WHERE session_id = ...
UsedItems(responses, session_id) ==
  { responses[i].id : i \in { j \in 1..Len(responses) :
                                responses[j].session_id = session_id } }

\* submit_placement_answer from the lookup of the card on, for the session
\* row read by its first SELECT; order is the order of the pool query
AnswerApply(session, session_id, card_id, user_answer, order) ==
  LET user_rating == UserRating(user_answer)
      is_correct == IsCorrect(user_rating)
      confidence == Confidence(user_rating)
      item_theta == PayloadTheta(card_id)
      updated == update_ability(session.current_theta, session.theta_se,
                                item_theta, is_correct, confidence)
      new_theta == updated[1]
      new_se == updated[2]
      responses == Append(placement_responses,
                     [ id |-> NextResponseId,
                       session_id |-> session_id, card_id |-> card_id,
                       user_response |-> user_answer,
                       is_correct |-> is_correct,
                       theta_before |-> session.current_theta,
                       theta_after |-> new_theta,
                       se_before |-> session.theta_se,
                       se_after |-> new_se ])
      items_completed == session.items_completed + 1
      final_cefr == get_final_cefr(new_theta)
      available_items == AvailableItems(order)
      selected_item == select_next_item(new_theta, available_items)
      forced ==
        /\ placement_responses' = responses
        /\ placement_sessions' =
             [placement_sessions EXCEPT ![session_id].is_complete = TRUE,
                                        ![session_id].final_cefr = final_cefr,
                                        ![session_id].final_theta = new_theta]
        /\ response' = [ NoResponse EXCEPT !.op = "answer",
                                           !.session_id = session_id,
                                           !.complete = TRUE,
                                           !.cefr_level = final_cefr ]
        /\ UNCHANGED simple_users
  IN  IF card_id \notin cards
      THEN /\ response' = HttpError("answer", session_id, "Card not found")
           /\ UNCHANGED << placement_sessions, placement_responses, simple_users >>
      ELSE IF should_stop(new_se, items_completed)
      THEN /\ placement_responses' = responses
           /\ placement_sessions' =
                [placement_sessions EXCEPT ![session_id].current_theta = new_theta,
                                           ![session_id].theta_se = new_se,
                                           ![session_id].items_completed = items_completed,
                                           ![session_id].is_complete = TRUE,
                                           ![session_id].final_cefr = final_cefr,
                                           ![session_id].final_theta = new_theta]
           /\ simple_users' =
                [simple_users EXCEPT ![session.user_id] =
                   [ cefr_level |-> final_cefr,
                     theta_estimate |-> Real4(new_theta),
                     last_placement_date |-> now ]]
           /\ response' = [ NoResponse EXCEPT !.op = "answer",
                                              !.session_id = session_id,
                                              !.complete = TRUE,
                                              !.cefr_level = final_cefr,
                                              !.items_completed = items_completed ]
      ELSE IF available_items = << >>
      THEN forced
      ELSE IF selected_item = NoItem
      THEN forced
      ELSE /\ placement_responses' = responses
           /\ placement_sessions' =
                [placement_sessions EXCEPT ![session_id].current_theta = new_theta,
                                           ![session_id].theta_se = new_se,
                                           ![session_id].items_completed = items_completed]
           /\ response' = [ NoResponse EXCEPT !.op = "answer",
                                              !.session_id = session_id,
                                              !.item = selected_item.id,
                                              !.items_completed = items_completed,
                                              !.cefr_level = final_cefr ]
           /\ UNCHANGED simple_users

\* the pool query of submit_placement_answer, run after the INSERT of the
\* response row, so that the row's own id is among the ids it excludes
AnswerPoolOrders(session_id) ==
  RandomOrders(
    PlacementPool(UsedItems(placement_responses, session_id)
                    \cup { NextResponseId }),
    20)

default_profile_a1 ==
  [ cefr_level |-> "A1", theta_estimate |-> 0, last_placement_date |-> NoDate ]

\* the row get_user_profile inserts: VALUES (username, 'B1', 0.0)
default_profile ==
  [ cefr_level |-> "B1", theta_estimate |-> 0, last_placement_date |-> NoDate ]

\* get_user_profile: the stored profile, created with the default level
\* when the learner has none
get_user_profile(username) ==
  LET user == simple_users[username]
  IN  IF user # NoRow
      THEN /\ response' = [ NoResponse EXCEPT !.op = "profile",
                                              !.cefr_level = user.cefr_level,
                                              !.theta_estimate = user.theta_estimate ]
           /\ UNCHANGED simple_users
      ELSE /\ simple_users' = [simple_users EXCEPT ![username] = default_profile]
           /\ response' = [ NoResponse EXCEPT !.op = "profile",
                                              !.cefr_level = default_profile.cefr_level,
                                              !.theta_estimate =
                                                 default_profile.theta_estimate ]

\* the checks on the row of SELECT * FROM placement_sessions WHERE id = ...:
\* the detail of the HTTPException raised, "" when none is
session_check_skipped(session_id) ==
  IF session_id \notin DOMAIN placement_sessions
  THEN "Session not found"
  ELSE ""

session_check(session_id) ==
  IF session_id \notin DOMAIN placement_sessions
  THEN "Session not found"
  ELSE IF placement_sessions[session_id].is_complete
  THEN "Session already complete"
  ELSE ""

\* submit_placement_answer, run as one transaction
submit_placement_answer(session_id, card_id, user_answer) ==
  IF session_check(session_id) # ""
  THEN /\ response' = HttpError("answer", session_id, session_check(session_id))
       /\ UNCHANGED << placement_sessions, placement_responses, simple_users >>
  ELSE \E order \in AnswerPoolOrders(session_id) :
         AnswerApply(placement_sessions[session_id], session_id, card_id,
                     user_answer, order)

\* learners who send requests: the owner of the session and another learner
Senders == Users \cup { "bob" }

\* no request of a known sender yet
NoSender == ""

\* the requests that may be in progress at the same time
Requests == { "r1", "r2" }

\* a request slot with no placement/answer in progress
IdleAnswer ==
  [ phase |-> "idle", session_id |-> 0, card_id |-> NoItem.id,
    user_answer |-> "",
    session |-> [ id |-> 0, user_id |-> "", language |-> "",
                  current_theta |-> 0, theta_se |-> 0, items_completed |-> 0,
                  is_complete |-> FALSE, final_cefr |-> None,
                  final_theta |-> NullTheta ] ]

\* submit_placement_answer up to and including its SELECT of the session row
answer_begin(r, session_id, card_id, user_answer) ==
  IF session_check(session_id) # ""
  THEN /\ response' = HttpError("answer", session_id, session_check(session_id))
       /\ UNCHANGED answers_in_flight
  ELSE /\ answers_in_flight' =
            [answers_in_flight EXCEPT ![r] =
               [ phase |-> "read", session_id |-> session_id,
                 card_id |-> card_id, user_answer |-> user_answer,
                 session |-> placement_sessions[session_id] ]]
       /\ UNCHANGED response

\* the rest of submit_placement_answer, up to the commit
answer_finish(r) ==
  LET q == answers_in_flight[r]
  IN  /\ \E order \in AnswerPoolOrders(q.session_id) :
           AnswerApply(q.session, q.session_id, q.card_id, q.user_answer, order)
      /\ answers_in_flight' = [answers_in_flight EXCEPT ![r] = IdleAnswer]


-----------------------------------------------------------------------------
(* Review handler: src/api/main.py                                         *)

\* rating of a ReviewItem: the four ratings and one integer outside them
ReviewRatings == Rating \cup { 5 }

\* updated_card.state.name.lower()
StateColumn(state) ==
  CASE state = "NEW" -> "new"
    [] state = "LEARNING" -> "learning"
    [] state = "REVIEW" -> "review"
    [] state = "RELEARNING" -> "relearning"

\* State[user_card['state'].upper()]
StateOfColumn(state) ==
  CASE state = "new" -> "NEW"
    [] state = "learning" -> "LEARNING"
    [] state = "review" -> "REVIEW"
    [] state = "relearning" -> "RELEARNING"

\* updated_card.due.date(): the day of a time in minutes
DateOf(t) == t \div MinutesPerDay

\* SELECT * FROM user_cards WHERE user_id = ... AND card_id = ..., on the
\* rows a transaction sees
SelectFrom(rows, username, card_id) ==
  { row \in rows : row.user_id = username /\ row.card_id = card_id }

\* the same SELECT on the committed rows
SelectUserCard(username, card_id) == SelectFrom(user_cards, username, card_id)

\* Card(...) built from a row of user_cards; due_date is a DATE, read as the
\* start of its day
LoadCard(row) ==
  [ due |-> row.due_date * MinutesPerDay,
    stability |-> row.stability,
    difficulty |-> row.difficulty,
    elapsed_days |-> row.elapsed_days,
    scheduled_days |-> row.scheduled_days,
    reps |-> row.reps,
    lapses |-> row.lapses,
    state |-> StateOfColumn(row.state),
    last_review |-> row.last_review ]

\* the row written by INSERT INTO user_cards ... ON CONFLICT DO UPDATE
UserCardRow(username, card_id, updated_card) ==
  [ user_id |-> username, card_id |-> card_id,
    stability |-> updated_card.stability,
    difficulty |-> updated_card.difficulty,
    interval_days |-> updated_card.scheduled_days,
    due_date |-> DateOf(updated_card.due),
    reps |-> updated_card.reps,
    lapses |-> updated_card.lapses,
    last_review |-> updated_card.last_review,
    state |-> StateColumn(updated_card.state),
    scheduled_days |-> updated_card.scheduled_days,
    elapsed_days |-> updated_card.elapsed_days ]

\* the rows of user_cards after the upsert of one row
Upsert_replace_all(rows, row) == { row }

Upsert(rows, row) ==
  { old \in rows : ~ (old.user_id = row.user_id /\ old.card_id = row.card_id) }
    \cup { row }

\* whether the try block of one ReviewItem raises: Rating(item.rating) raises
\* ValueError outside 1..4; a stored last_review comes back from its
\* TIMESTAMPTZ column offset-aware, and the scheduler's
\* (now - card.last_review) with the offset-naive datetime.now() raises
\* TypeError
ReviewRaises(user_card, rating) ==
  \/ rating \notin Rating
  \/ \E row \in user_card : row.last_review # NoReview

\* a request slot with no submit_reviews in progress
IdleReview ==
  [ phase |-> "idle", username |-> "", card_id |-> NoItem.id, rating |-> 0,
    now |-> 0, user_card |-> {} ]

\* submit_reviews for one ReviewItem, up to and including its SELECT
review_begin(r, username, card_id, rating) ==
  reviews_in_flight' =
    [reviews_in_flight EXCEPT ![r] =
       [ phase |-> "read", username |-> username, card_id |-> card_id,
         rating |-> rating, now |-> now,
         user_card |-> SelectUserCard(username, card_id) ]]

\* the rest of submit_reviews for that item, up to the commit
review_finish(r) ==
  LET q == reviews_in_flight[r]
      loaded == IF q.user_card = {}
                THEN init_card(q.now)
                ELSE LoadCard(CHOOSE row \in q.user_card : TRUE)
      updated_card == schedule_card(loaded, q.rating, q.now)
  IN  /\ IF ReviewRaises(q.user_card, q.rating)
         THEN UNCHANGED << user_cards, review_log >>
         ELSE /\ user_cards' =
                   Upsert(user_cards, UserCardRow(q.username, q.card_id, updated_card))
              /\ review_log' =
                   Append(review_log,
                          [ user_id |-> q.username, card_id |-> q.card_id,
                            rating |-> q.rating, ts |-> q.now ])
      /\ reviews_in_flight' = [reviews_in_flight EXCEPT ![r] = IdleReview]

\* response_time_ms is counted in units of 2^16 ms; the first value that the
\* INT column review_log.response_time_ms does not hold (2^31 ms)
int4_limit == 32768

\* the transaction at conn.commit(): COMMIT in an aborted transaction is a
\* ROLLBACK, and it raises nothing
commit_without_rollback(st, rows, log) ==
  [ rows |-> st.rows, log |-> st.log ]

commit(st, rows, log) ==
  IF st.aborted
  THEN [ rows |-> rows, log |-> log ]
  ELSE [ rows |-> st.rows, log |-> st.log ]

\* one pass of the for loop of submit_reviews: the rows, the log and
\* updated_count after the item, from those before it. A statement that
\* the database refuses (INSERT INTO review_log with a response_time_ms out
\* of range) aborts the transaction after the upsert of the item; every
\* later statement of the batch raises, and each exception is swallowed
review_item(st, item, t) ==
  LET user_card == SelectFrom(st.rows, item.username, item.card_id)
      loaded == IF user_card = {}
                THEN init_card(t)
                ELSE LoadCard(CHOOSE row \in user_card : TRUE)
      updated_card == schedule_card(loaded, item.rating, t)
      upserted == Upsert(st.rows,
                         UserCardRow(item.username, item.card_id, updated_card))
      refused == item.response_time_ms >= int4_limit
  IN  IF st.aborted \/ ReviewRaises(user_card, item.rating)
      THEN st
      ELSE [ rows |-> upserted,
             log |-> IF refused
                     THEN st.log
                     ELSE Append(st.log,
                                 [ user_id |-> item.username,
                                   card_id |-> item.card_id,
                                   rating |-> item.rating, ts |-> t ]),
             updated |-> IF refused THEN st.updated ELSE st.updated + 1,
             aborted |-> refused ]

RECURSIVE ReviewLoop(_, _, _, _)
\* for item in items, from the i-th item on
ReviewLoop(st, items, i, t) ==
  IF i > Len(items)
  THEN st
  ELSE ReviewLoop(review_item(st, items[i], t), items, i + 1, t)

\* submit_reviews, run as one transaction at time now
submit_reviews(items) ==
  \E st \in { ReviewLoop([ rows |-> user_cards, log |-> review_log,
                           updated |-> 0, aborted |-> FALSE ],
                         items, 1, now) } :
    \E stored \in { commit(st, user_cards, review_log) } :
      /\ user_cards' = stored.rows
      /\ review_log' = stored.log
      /\ response' = [ NoResponse EXCEPT !.op = "reviews", !.updated = st.updated ]

-----------------------------------------------------------------------------
(* Session composer: src/api/main.py                                       *)

\* cefr_theta_map.get(user_cefr, 0.0), at PSCALE
cefr_theta_map(user_cefr) ==
  CASE user_cefr = "A1" -> 0 - 2 * PSCALE
    [] user_cefr = "A2" -> 0 - PSCALE
    [] user_cefr = "B1" -> 0
    [] user_cefr = "B2" -> PSCALE
    [] user_cefr = "C1" -> 2 * PSCALE
    [] user_cefr = "C2" -> 3 * PSCALE
    [] OTHER -> 0

theta_band_wide == 2 * PSCALE

\* theta_min = target_theta - 1.0, theta_max = target_theta + 1.0
theta_band == PSCALE

\* c.language = 'ru' AND c.payload ? 'theta'
\*   AND CAST(c.payload->>'theta' AS REAL) BETWEEN theta_min AND theta_max
InBand(id, theta_min, theta_max) ==
  /\ CardRow(id).language = "ru"
  /\ CardRow(id).has_theta
  /\ Real4(CardRow(id).theta) >= theta_min
  /\ Real4(CardRow(id).theta) <= theta_max

\* cards c INNER JOIN user_cards uc ON c.id::text = uc.card_id
\*   WHERE uc.user_id = username, in the band
JoinedRows(username, theta_min, theta_max) ==
  { uc \in user_cards : /\ uc.card_id \in cards
                        /\ uc.user_id = username
                        /\ InBand(uc.card_id, theta_min, theta_max) }

\* priority 1: uc.due_date <= today AND uc.state IN ('review', 'relearning')
DueRows(username, theta_min, theta_max, today) ==
  { uc \in JoinedRows(username, theta_min, theta_max) :
      uc.due_date <= today /\ uc.state \in { "review", "relearning" } }

\* priority 2: uc.state = 'learning'
LearningRows(username, theta_min, theta_max) ==
  { uc \in JoinedRows(username, theta_min, theta_max) : uc.state = "learning" }

NewRows_any_theta(username, theta_min, theta_max) ==
  { id \in cards : /\ CardRow(id).language = "ru"
                   /\ SelectFrom(user_cards, username, id) = {} }

\* priority 3: cards c LEFT JOIN user_cards uc ... WHERE uc.card_id IS NULL,
\* in the band
NewRows(username, theta_min, theta_max) ==
  { id \in cards : /\ InBand(id, theta_min, theta_max)
                   /\ SelectFrom(user_cards, username, id) = {} }

\* the fallback query: c.language = 'ru' AND c.id NOT IN used_card_ids
FallbackRows_any(used_card_ids) ==
  { id \in cards : CardRow(id).language = "ru" }

FallbackRows(used_card_ids) ==
  { id \in cards : CardRow(id).language = "ru" /\ id \notin used_card_ids }

later_or_same(a, b) == a >= b

\* ASC of ORDER BY uc.due_date ASC
earlier_or_same(a, b) == a <= b

\* ORDER BY uc.due_date ASC LIMIT limit: the orders in which rows may come
\* back, rows of the same date in any order
DueDateOrders(rows, limit) ==
  { f \in RandomOrders(rows, limit) :
      /\ \A i, j \in DOMAIN f :
           i < j => earlier_or_same(f[i].due_date, f[j].due_date)
      /\ \A uc \in rows :
           (\A i \in DOMAIN f : f[i] # uc) =>
             \A i \in DOMAIN f : earlier_or_same(f[i].due_date, uc.due_date) }

\* a row of priority 1 or 2 as returned
MemoryItem(uc) ==
  [ card_id |-> uc.card_id, due_date |-> uc.due_date, state |-> uc.state ]

\* a row of priority 3 or of the fallback as returned: NULL as due_date,
\* NULL as state
NullItem(id) == [ card_id |-> id, due_date |-> NoDate, state |-> None ]

\* the response of the except clause
sessions_next_error ==
  [ items |-> << >>, user_cefr |-> "B1",
    session_breakdown |->
      [ due_cards |-> 0, learning_cards |-> 0, new_cards |-> 0, total |-> 0 ],
    error |-> TRUE ]

\* the responses sessions_next may give; LIMIT with a negative count is an
\* error of the database, which the except clause turns into the fallback
\* response
sessions_next(username, count) ==
  LET user_profile == simple_users[username]
      user_cefr == IF user_profile # NoRow THEN user_profile.cefr_level ELSE "B1"
      target_theta == cefr_theta_map(user_cefr)
      theta_min == target_theta - theta_band
      theta_max == target_theta + theta_band
      today == DateOf(now)
  IN  IF count < 0
      THEN { sessions_next_error }
      ELSE UNION { UNION { UNION { UNION {
             LET all_cards ==
                   [ i \in DOMAIN due_cards |-> MemoryItem(due_cards[i]) ]
                     \o [ i \in DOMAIN learning_cards |->
                            MemoryItem(learning_cards[i]) ]
                     \o [ i \in DOMAIN new_cards |-> NullItem(new_cards[i]) ]
                     \o [ i \in DOMAIN fallback_cards |->
                            NullItem(fallback_cards[i]) ]
             IN  { [ items |-> SubSeq(all_cards, 1, Min2(count, Len(all_cards))),
                     user_cefr |-> user_cefr,
                     session_breakdown |->
                       [ due_cards |-> Len(due_cards),
                         learning_cards |-> Len(learning_cards),
                         new_cards |-> Len(new_cards),
                         total |-> Len(all_cards) ],
                     error |-> FALSE ] } :
             fallback_cards \in
               IF Len(due_cards) + Len(learning_cards) + Len(new_cards) < count
               THEN RandomOrders(
                      FallbackRows({ due_cards[i].card_id : i \in DOMAIN due_cards }
                        \cup { learning_cards[i].card_id : i \in DOMAIN learning_cards }
                        \cup { new_cards[i] : i \in DOMAIN new_cards }),
                      count - Len(due_cards) - Len(learning_cards) - Len(new_cards))
               ELSE { << >> } } :
             new_cards \in
               IF count - Len(due_cards) - Len(learning_cards) > 0
               THEN RandomOrders(NewRows(username, theta_min, theta_max),
                                 count - Len(due_cards) - Len(learning_cards))
               ELSE { << >> } } :
             learning_cards \in
               IF count - Len(due_cards) > 0
               THEN DueDateOrders(LearningRows(username, theta_min, theta_max),
                                  count - Len(due_cards))
               ELSE { << >> } } :
             due_cards \in
               DueDateOrders(DueRows(username, theta_min, theta_max, today),
                             count) }

-----------------------------------------------------------------------------
(* Credit distributor: src/api/contextual_learning.py                      *)

\* a token of a sentence between two blanks: its letters in lower case
\* (transliterated), whether it is written with a capital, and the
\* punctuation mark attached to it
Token(letters, capital, mark) ==
  [ letters |-> letters, capital |-> capital, mark |-> mark ]

\* a word in lower case without punctuation
Word(letters) == Token(letters, FALSE, "")

\* sentence.lower().replace('.', '').replace(',', '') on one token
lower_strip(token) ==
  [ token EXCEPT !.capital = FALSE,
                 !.mark = IF @ \in { ".", "," } THEN "" ELSE @ ]

\* basic_words
basic_words ==
  { Word(letters) :
      letters \in { "ya", "ty", "on", "ona", "my", "vy", "oni", "v", "na", "i",
                    "a", "no" } }

\* analyze_sentence_words: the tokens of the sentence, lowered and stripped,
\* without the basic words
analyze_sentence_words(sentence, target_word, user_cefr) ==
  LET words == [ i \in DOMAIN sentence |-> lower_strip(sentence[i]) ]
      NotBasic(word) == word \notin basic_words
  IN  SelectSeq(words, NotBasic)

\* structural_words
structural_words ==
  { Word(letters) :
      letters \in { "ne", "to", "eto", "chto", "kak", "gde", "kogda", "pochemu" } }

\* classify_word_importance; word_frequency is 0 when the caller gives none
\* (None and 0 are both false in "if word_frequency and ...")
classify_word_importance(word, target_word, user_cefr, word_frequency) ==
  IF word = target_word THEN "PRIMARY"
  ELSE IF /\ word_frequency # 0
          /\ word_frequency <= 100
          /\ user_cefr \in { "B2", "C1", "C2" }
       THEN "STRUCTURAL"
  ELSE IF word \in structural_words THEN "STRUCTURAL"
  ELSE "SUPPORTING"

\* base_multipliers, at SCALE
base_multipliers(credit_type) ==
  CASE credit_type = "PRIMARY" -> SCALE
    [] credit_type = "SUPPORTING" -> 6 * (SCALE \div 10)
    [] credit_type = "STRUCTURAL" -> 2 * (SCALE \div 10)
    [] credit_type = "IGNORED" -> 0

calculate_credit_multiplier_keep_structural(credit_type, user_rating, user_cefr) ==
  LET base_multiplier == base_multipliers(credit_type)
  IN  Min2(SCALE,
           IF user_rating = 1 /\ credit_type = "SUPPORTING"
           THEN FxMul(base_multiplier, 3 * (SCALE \div 10))
           ELSE IF user_rating = 4 /\ credit_type = "SUPPORTING"
           THEN FxMul(base_multiplier, 12 * (SCALE \div 10))
           ELSE base_multiplier)

\* calculate_credit_multiplier, at SCALE
calculate_credit_multiplier(credit_type, user_rating, user_cefr) ==
  LET base_multiplier == base_multipliers(credit_type)
  IN  Min2(SCALE,
           IF user_rating = 1
           THEN IF credit_type = "SUPPORTING"
                THEN FxMul(base_multiplier, 3 * (SCALE \div 10))
                ELSE IF credit_type = "STRUCTURAL" THEN 0
                ELSE base_multiplier
           ELSE IF user_rating = 4
           THEN IF credit_type = "SUPPORTING"
                THEN FxMul(base_multiplier, 12 * (SCALE \div 10))
                ELSE base_multiplier
           ELSE base_multiplier)

\* return None of adjust_rating_for_word
NoRating == 0

adjust_rating_conservative(base_rating, credit_multiplier, credit_type) ==
  IF credit_multiplier = 0 THEN NoRating
  ELSE IF base_rating = 1 THEN 1
  ELSE IF base_rating = 2 THEN 2
  ELSE 3

adjust_rating_verbatim(base_rating, credit_multiplier, credit_type) ==
  IF credit_type = "PRIMARY" THEN base_rating
  ELSE IF credit_multiplier = 0 THEN NoRating
  ELSE base_rating

\* adjust_rating_for_word
adjust_rating_for_word(base_rating, credit_multiplier, credit_type) ==
  IF credit_type = "PRIMARY" THEN base_rating
  ELSE IF credit_multiplier = 0 THEN NoRating
  ELSE IF base_rating = 1 THEN 1
  ELSE IF base_rating = 2 THEN 2
  ELSE IF base_rating = 3 THEN 3
  ELSE 3

\* the WordCredit of one word of the loop, << >> when the word is skipped;
\* word_lexeme_map is empty, so that lexeme_id is f"unknown_{word}"
WordCredits(word, target_word, user_rating, user_cefr) ==
  LET credit_type == classify_word_importance(word, target_word, user_cefr, 0)
      credit_multiplier ==
        calculate_credit_multiplier(credit_type, user_rating, user_cefr)
      adjusted_rating ==
        adjust_rating_for_word(user_rating, credit_multiplier, credit_type)
  IN  IF credit_type = "IGNORED" THEN << >>
      ELSE IF credit_multiplier = 0 THEN << >>
      ELSE IF adjusted_rating = NoRating THEN << >>
      ELSE << [ word |-> word,
                lexeme_id |-> << "unknown", word >>,
                credit_type |-> credit_type,
                credit_multiplier |-> credit_multiplier,
                adjusted_rating |-> adjusted_rating ] >>

RECURSIVE CreditLoop(_, _, _, _, _)
\* for word in words: credit_distribution.append(...)
CreditLoop(words, i, target_word, user_rating, user_cefr) ==
  IF i > Len(words) THEN << >>
  ELSE WordCredits(words[i], target_word, user_rating, user_cefr)
         \o CreditLoop(words, i + 1, target_word, user_rating, user_cefr)

\* distribute_contextual_credit
distribute_contextual_credit(sentence, target_word, user_rating, user_cefr) ==
  CreditLoop(analyze_sentence_words(sentence, target_word, user_cefr), 1,
             target_word, user_rating, user_cefr)

-----------------------------------------------------------------------------
(* State at the start of the service                                       *)

SchedulerStart ==
  /\ now = 0
  /\ card = init_card(0)
  /\ prevCard = init_card(0)
  /\ lastRating = 0

PlacementStartOfService ==
  /\ cards = CardIds
  /\ placement_sessions = << >>
  /\ placement_responses = << >>
  /\ simple_users = [ u \in Users |-> NoRow ]
  /\ response = NoResponse
  /\ answers_in_flight = [ r \in Requests |-> IdleAnswer ]
  /\ sender = NoSender

ReviewsStartOfService ==
  /\ user_cards = {}
  /\ review_log = << >>
  /\ reviews_in_flight = [ r \in Requests |-> IdleReview ]

\* no call of an engine function in progress
NoCall == [ fn |-> "none" ]

\* no value returned
NoResult == [ returned |-> FALSE ]

NoFunctionCall ==
  /\ args = NoCall
  /\ result = NoResult

-----------------------------------------------------------------------------
(* Placement test, one request at a time                                   *)

InitPlacement ==
  /\ SchedulerStart
  /\ PlacementStartOfService
  /\ ReviewsStartOfService
  /\ NoFunctionCall

\* POST /v1/placement/start; the walk follows one session
PlacementStart(username, claimed_level) ==
  /\ placement_sessions = << >>
  /\ \E order \in RandomOrders(PlacementPool({}), 50) :
       start_placement_test(username, "ru", claimed_level, order)
  /\ UNCHANGED << cards, placement_responses, simple_users, answers_in_flight >>
  /\ UNCHANGED << fsrsVars, reviewVars, functionVars, clientVars >>

\* POST /v1/placement/answer
PlacementAnswer(session_id, card_id, user_answer) ==
  /\ submit_placement_answer(session_id, card_id, user_answer)
  /\ Len(placement_responses') <= MaxAnswers
  /\ UNCHANGED << cards, answers_in_flight >>
  /\ UNCHANGED << fsrsVars, reviewVars, functionVars, clientVars >>

\* a card is withdrawn from the cards table
ContentRemoved(card_id) ==
  /\ card_id \in cards
  /\ cards' = cards \ { card_id }
  /\ UNCHANGED << placement_sessions, placement_responses, simple_users,
                  response, answers_in_flight >>
  /\ UNCHANGED << fsrsVars, reviewVars, functionVars, clientVars >>

\* GET /v1/user/{username}
GetUserProfile(username) ==
  /\ get_user_profile(username)
  /\ UNCHANGED << cards, placement_sessions, placement_responses,
                  answers_in_flight >>
  /\ UNCHANGED << fsrsVars, reviewVars, functionVars, clientVars >>

NextPlacement ==
  \/ \E username \in Users, claimed_level \in ClaimedLevels :
       PlacementStart(username, claimed_level)
  \/ \E username \in Users : GetUserProfile(username)
  \/ \E session_id \in SessionIds, card_id \in CardIds, user_answer \in WalkAnswers :
       PlacementAnswer(session_id, card_id, user_answer)
  \/ \E card_id \in CardIds : ContentRemoved(card_id)

SpecPlacement == InitPlacement /\ [][NextPlacement]_vars

-----------------------------------------------------------------------------
(* Placement test, two requests in progress at the same time               *)

\* number of placement/answer requests accepted
MaxRacingAnswers == 3

AnswersBegun ==
  Len(placement_responses)
    + Cardinality({ r \in Requests : answers_in_flight[r].phase = "read" })

AnswerBegin(r, session_id, card_id, user_answer) ==
  /\ answers_in_flight[r].phase = "idle"
  /\ AnswersBegun < MaxRacingAnswers
  /\ answer_begin(r, session_id, card_id, user_answer)
  /\ UNCHANGED << cards, placement_sessions, placement_responses, simple_users >>
  /\ UNCHANGED << fsrsVars, reviewVars, functionVars, clientVars >>

AnswerFinish(r) ==
  /\ answers_in_flight[r].phase = "read"
  /\ answer_finish(r)
  /\ UNCHANGED cards
  /\ UNCHANGED << fsrsVars, reviewVars, functionVars, clientVars >>

NextPlacementConcurrent ==
  \/ \E username \in Users, claimed_level \in ClaimedLevels :
       PlacementStart(username, claimed_level)
  \/ \E r \in Requests, session_id \in SessionIds, card_id \in CardIds,
        user_answer \in Answers :
       AnswerBegin(r, session_id, card_id, user_answer)
  \/ \E r \in Requests : AnswerFinish(r)

SpecPlacementConcurrent == InitPlacement /\ [][NextPlacementConcurrent]_vars

-----------------------------------------------------------------------------
(* Placement test, the learner rates every item offered                    *)

\* user_answer of a learner who rates the item
RatingAnswers == { "1", "2", "3", "4" }

\* POST /v1/placement/answer for the item of the last response
AnswerOffered(user_answer) ==
  /\ response.ok
  /\ response.item # NoItem.id
  /\ submit_placement_answer(response.session_id, response.item, user_answer)
  /\ UNCHANGED << cards, answers_in_flight >>
  /\ UNCHANGED << fsrsVars, reviewVars, functionVars, clientVars >>

NextPlacementRatings ==
  \/ \E username \in Users : PlacementStart(username, None)
  \/ \E user_answer \in RatingAnswers : AnswerOffered(user_answer)

SpecPlacementRatings == InitPlacement /\ [][NextPlacementRatings]_vars

-----------------------------------------------------------------------------
(* Placement test, any user_answer                                         *)

\* user_answer of any client: the four ratings, two integers outside them
\* and a string that is no integer
AnyAnswers == RatingAnswers \cup { "0", "5", "x" }

\* number of rows of placement_responses in the short walk
MaxShortAnswers == 2

\* POST /v1/placement/answer with any user_answer
AnswerAnything(session_id, card_id, user_answer) ==
  /\ submit_placement_answer(session_id, card_id, user_answer)
  /\ Len(placement_responses') <= MaxShortAnswers
  /\ UNCHANGED << cards, answers_in_flight >>
  /\ UNCHANGED << fsrsVars, reviewVars, functionVars, clientVars >>

NextPlacementAnswers ==
  \/ \E username \in Users, claimed_level \in ClaimedLevels :
       PlacementStart(username, claimed_level)
  \/ \E session_id \in SessionIds, card_id \in CardIds, user_answer \in AnyAnswers :
       AnswerAnything(session_id, card_id, user_answer)

SpecPlacementAnswers == InitPlacement /\ [][NextPlacementAnswers]_vars

-----------------------------------------------------------------------------
(* Placement test, requests of two learners                                *)

\* POST /v1/placement/start sent by the learner it names
StartBy(username, claimed_level) ==
  /\ placement_sessions = << >>
  /\ sender' = username
  /\ \E order \in RandomOrders(PlacementPool({}), 50) :
       start_placement_test(username, "ru", claimed_level, order)
  /\ UNCHANGED << cards, placement_responses, simple_users, answers_in_flight >>
  /\ UNCHANGED << fsrsVars, reviewVars, functionVars >>

\* POST /v1/placement/answer sent by caller; the request body carries
\* session_id, card_id, user_answer and response_time_ms only
AnswerBy(caller, session_id, card_id, user_answer) ==
  /\ sender' = caller
  /\ submit_placement_answer(session_id, card_id, user_answer)
  /\ Len(placement_responses') <= MaxShortAnswers
  /\ UNCHANGED << cards, answers_in_flight >>
  /\ UNCHANGED << fsrsVars, reviewVars, functionVars >>

NextPlacementSenders ==
  \/ \E username \in Users, claimed_level \in ClaimedLevels :
       StartBy(username, claimed_level)
  \/ \E caller \in Senders, session_id \in SessionIds, card_id \in CardIds,
        user_answer \in Answers :
       AnswerBy(caller, session_id, card_id, user_answer)

SpecPlacementSenders == InitPlacement /\ [][NextPlacementSenders]_vars

-----------------------------------------------------------------------------
(* Reviews, two requests in progress at the same time                      *)

InitReviews ==
  /\ SchedulerStart
  /\ PlacementStartOfService
  /\ ReviewsStartOfService
  /\ NoFunctionCall

\* POST /v1/reviews with one ReviewItem: the request reads the memory state
ReviewBegin(r, username, card_id, rating) ==
  /\ reviews_in_flight[r].phase = "idle"
  /\ review_begin(r, username, card_id, rating)
  /\ UNCHANGED << user_cards, review_log >>
  /\ UNCHANGED << fsrsVars, placementVars, functionVars, clientVars >>

\* the request writes the memory state and the review log, and commits
ReviewFinish(r) ==
  /\ reviews_in_flight[r].phase = "read"
  /\ review_finish(r)
  /\ UNCHANGED << fsrsVars, placementVars, functionVars, clientVars >>

NextReviews ==
  \/ \E r \in Requests, username \in Users, card_id \in CardIds,
        rating \in ReviewRatings :
       ReviewBegin(r, username, card_id, rating)
  \/ \E r \in Requests : ReviewFinish(r)

SpecReviewsConcurrent == InitReviews /\ [][NextReviews]_vars

-----------------------------------------------------------------------------
(* Reviews, one batch at a time                                            *)

\* longest batch
MaxBatch == 2

\* card_id of a ReviewItem: a card of the cards table and an id that no
\* card has
BatchCardIds == { << "card", 1 >>, << "card", 3 >> }

\* rating of a ReviewItem in a batch
BatchRatings == { AGAIN, GOOD, 5 }

\* rating of an item whose response_time_ms the INT column does not hold
SlowRatings == { GOOD }

\* the ReviewItems of a batch: response_time_ms is a quarter of a second
\* (none of the units), or a time that the INT column does not hold
ReviewItems ==
  [ card_id : BatchCardIds, rating : BatchRatings, username : Users,
    response_time_ms : { 0 } ]
    \cup [ card_id : { << "card", 1 >> }, rating : SlowRatings, username : Users,
           response_time_ms : { int4_limit } ]

\* the batches
Batches == UNION { [1..n -> ReviewItems] : n \in 1..MaxBatch }

\* POST /v1/reviews
SubmitReviews(items) ==
  /\ args' = [ fn |-> "submit_reviews", items |-> items ]
  /\ submit_reviews(items)
  /\ UNCHANGED << result, reviews_in_flight >>
  /\ UNCHANGED << cards, placement_sessions, placement_responses, simple_users,
                  answers_in_flight >>
  /\ UNCHANGED << fsrsVars, clientVars >>

NextReviewBatches == \E items \in Batches : SubmitReviews(items)

SpecReviewBatches == InitReviews /\ [][NextReviewBatches]_vars

-----------------------------------------------------------------------------
(* Session composer on bounded stores                                      *)

\* largest count of a NextRequest
MaxCount == 3

\* count of a NextRequest: the field has no lower limit
Counts == (0 - 1)..MaxCount

\* the day of the requests
ComposerDay == 2

\* the cards of the store
DeckIds == CardIds \cup { << "card", 4 >>, << "card", 5 >>, << "card", 6 >> }

\* no row of user_cards for a learner and a card
NoMemory == << "NEW", NoDate >>

\* state and due_date of the learner's row for a card with theta
MemoryStates ==
  { NoMemory, << "REVIEW", 1 >>, << "REVIEW", 2 >>, << "REVIEW", 3 >>,
    << "LEARNING", 2 >>, << "RELEARNING", 1 >> }

\* state and due_date of the learner's row for the card without theta and
\* for the card of another language
OtherMemoryStates == { NoMemory, << "REVIEW", 1 >> }

\* the row of user_cards of a card reviewed on day 0
StoredRow(username, card_id, memory) ==
  UserCardRow(username, card_id,
              [ init_card(0) EXCEPT !.state = memory[1],
                                    !.due = memory[2] * MinutesPerDay,
                                    !.reps = 1,
                                    !.last_review = 0 ])

\* the profiles of the learner: none, and the rows of placements that
\* ended at A2 and at C2
Profiles ==
  { NoRow }
    \cup { [ cefr_level |-> level, theta_estimate |-> cefr_levels(level),
             last_placement_date |-> 0 ] : level \in { "A2", "C2" } }

\* the contents of the cards table: the deck, and no card at all
Stores == { DeckIds, {} }

InitComposer ==
  /\ now = ComposerDay * MinutesPerDay
  /\ card = init_card(0)
  /\ prevCard = init_card(0)
  /\ lastRating = 0
  /\ cards \in Stores
  /\ placement_sessions = << >>
  /\ placement_responses = << >>
  /\ simple_users \in [ Users -> Profiles ]
  /\ response = NoResponse
  /\ answers_in_flight = [ r \in Requests |-> IdleAnswer ]
  /\ sender = NoSender
  /\ \E memory \in [ DeckIds -> MemoryStates ] :
       /\ \A id \in DeckIds :
            ~ InBand(id, theta_lo, theta_hi) => memory[id] \in OtherMemoryStates
       /\ user_cards =
            { StoredRow(username, id, memory[id]) :
                username \in Users,
                id \in { c \in DeckIds : memory[c] # NoMemory } }
              \cup { StoredRow("bob", << "card", 4 >>, << "REVIEW", 1 >>) }
  /\ review_log = << >>
  /\ reviews_in_flight = [ r \in Requests |-> IdleReview ]
  /\ NoFunctionCall

\* POST /v1/sessions/next, one request on each store
SessionsNext(username, count) ==
  /\ ~ result.returned
  /\ args' = [ fn |-> "sessions_next", username |-> username, count |-> count ]
  /\ \E returned \in sessions_next(username, count) :
       result' = [ returned |-> TRUE, value |-> returned ]
  /\ UNCHANGED << fsrsVars, placementVars, reviewVars, clientVars >>

NextComposer ==
  \E username \in Users, count \in Counts : SessionsNext(username, count)

SpecComposer == InitComposer /\ [][NextComposer]_vars

-----------------------------------------------------------------------------
(* distribute_contextual_credit on bounded sentences                       *)

\* longest sentence, in tokens
MaxWords == 3

\* the tokens of the sentences: a verb as written in a sentence (plain, with
\* a capital, before a full stop, before an exclamation mark), another
\* content word, a structural word and a basic word
SentenceTokens ==
  { Word("est"), Token("est", TRUE, ""), Token("est", FALSE, "."),
    Token("est", FALSE, "!"), Word("khochu"), Word("ne"), Word("v") }

\* the sentences
Sentences == UNION { [1..n -> SentenceTokens] : n \in 0..MaxWords }

\* target_word of a call: the verb in lower case and with a capital, a
\* structural word and a basic word
TargetWords == { Word("est"), Token("est", TRUE, ""), Word("ne"), Word("v") }

\* user_cefr of a call
CreditLevels == { "A2", "B2" }

InitCredit ==
  /\ SchedulerStart
  /\ PlacementStartOfService
  /\ ReviewsStartOfService
  /\ \E sentence \in Sentences, target_word \in TargetWords,
        user_rating \in Rating, user_cefr \in CreditLevels :
       args = [ fn |-> "distribute_contextual_credit", sentence |-> sentence,
                target_word |-> target_word, user_rating |-> user_rating,
                user_cefr |-> user_cefr ]
  /\ result = NoResult

CreditCall ==
  /\ ~ result.returned
  /\ result' = [ returned |-> TRUE,
                 value |-> distribute_contextual_credit(
                             args.sentence, args.target_word,
                             args.user_rating, args.user_cefr) ]
  /\ UNCHANGED args
  /\ UNCHANGED << fsrsVars, placementVars, reviewVars, clientVars >>

NextCredit == CreditCall

SpecCredit == InitCredit /\ [][NextCredit]_vars

-----------------------------------------------------------------------------
(* Ability walk: start_session followed by update_ability                  *)

\* number of answers of a walk
MaxWalk == 3

\* user_claimed_level of start_session: none, the six levels and a word
\* that is no level
WalkLevels == CefrSet \cup { None, "X0" }

\* item_theta of an answer: the ends of the theta range and the placement
\* item
WalkItemThetas == { theta_lo, PSCALE \div 2, 4 * PSCALE }

InitAbility ==
  /\ SchedulerStart
  /\ PlacementStartOfService
  /\ ReviewsStartOfService
  /\ NoFunctionCall

\* PlacementCAT.start_session
StartSession(user_claimed_level) ==
  /\ ~ result.returned
  /\ args' = [ fn |-> "start_session", user_claimed_level |-> user_claimed_level ]
  /\ result' = [ returned |-> TRUE, value |-> start_session(user_claimed_level) ]
  /\ UNCHANGED << fsrsVars, placementVars, reviewVars, clientVars >>

\* PlacementCAT.update_ability on the session's theta and se, for the answer
\* user_answer to an item; the caller keeps the returned pair as the
\* session's theta and se and counts the item
UpdateAbility(item_theta, user_answer) ==
  /\ result.returned
  /\ result.value.items_completed < MaxWalk
  /\ LET is_correct == IsCorrect(UserRating(user_answer))
         confidence == Confidence(UserRating(user_answer))
         updated == update_ability(result.value.theta, result.value.se,
                                   item_theta, is_correct, confidence)
     IN  /\ args' = [ fn |-> "update_ability",
                      current_theta |-> result.value.theta,
                      current_se |-> result.value.se,
                      item_theta |-> item_theta,
                      is_correct |-> is_correct,
                      confidence |-> confidence ]
         /\ result' = [ returned |-> TRUE,
                        value |-> [ theta |-> updated[1],
                                    se |-> updated[2],
                                    items_completed |->
                                      result.value.items_completed + 1,
                                    is_complete |-> FALSE ] ]
  /\ UNCHANGED << fsrsVars, placementVars, reviewVars, clientVars >>

\* the theta of an item that lies at the session's theta
ItemAtTheta == IF result.returned THEN { result.value.theta } ELSE {}

NextAbility ==
  \/ \E user_claimed_level \in WalkLevels : StartSession(user_claimed_level)
  \/ \E item_theta \in WalkItemThetas \cup ItemAtTheta, user_answer \in RatingAnswers :
       UpdateAbility(item_theta, user_answer)

SpecAbility == InitAbility /\ [][NextAbility]_vars

-----------------------------------------------------------------------------
(* select_next_item on bounded pools                                       *)

\* longest candidate pool
MaxPool == 3

\* current_theta of a call
SelectThetas ==
  { theta_lo, 0 - PSCALE, 0, PSCALE \div 4, 2 * PSCALE, theta_hi }

\* theta of the items of a pool
ItemThetas == { 0 - 2 * PSCALE, 0, PSCALE \div 2, PSCALE }

\* the pools: the item at position i has id i
Pools ==
  UNION { { [ i \in 1..n |->
               [ id |-> << "card", i >>, type |-> "vocabulary", theta |-> f[i] ] ] :
            f \in [1..n -> ItemThetas] } : n \in 0..MaxPool }

InitSelect ==
  /\ SchedulerStart
  /\ PlacementStartOfService
  /\ ReviewsStartOfService
  /\ \E current_theta \in SelectThetas, available_items \in Pools :
       args = [ fn |-> "select_next_item", current_theta |-> current_theta,
                available_items |-> available_items ]
  /\ result = NoResult

SelectCall ==
  /\ ~ result.returned
  /\ result' = [ returned |-> TRUE,
                 value |-> select_next_item(args.current_theta,
                                            args.available_items) ]
  /\ UNCHANGED args
  /\ UNCHANGED << fsrsVars, placementVars, reviewVars, clientVars >>

NextSelect == SelectCall

SpecSelect == InitSelect /\ [][NextSelect]_vars

-----------------------------------------------------------------------------
(* get_final_cefr on a grid of abilities                                   *)

\* theta from -3 to 4 in steps of 0.05
FinalCefrThetas == { k * (PSCALE \div 20) : k \in (0 - 60)..80 }

InitFinalCefr ==
  /\ SchedulerStart
  /\ PlacementStartOfService
  /\ ReviewsStartOfService
  /\ \E theta \in FinalCefrThetas :
       args = [ fn |-> "get_final_cefr", theta |-> theta ]
  /\ result = NoResult

FinalCefrCall ==
  /\ ~ result.returned
  /\ result' = [ returned |-> TRUE, value |-> get_final_cefr(args.theta) ]
  /\ UNCHANGED args
  /\ UNCHANGED << fsrsVars, placementVars, reviewVars, clientVars >>

NextFinalCefr == FinalCefrCall

SpecFinalCefr == InitFinalCefr /\ [][NextFinalCefr]_vars

-----------------------------------------------------------------------------
(* Scheduler walk: every card reachable from init_card by schedule_card    *)

\* number of ratings applied to one card
MaxReps == 6

\* time between two ratings of a card, minutes: ten minutes or thirty days
Delays == { 10, 30 * MinutesPerDay }

InitFsrs ==
  /\ SchedulerStart
  /\ PlacementStartOfService
  /\ ReviewsStartOfService
  /\ NoFunctionCall

\* schedule_card(card, rating, now) after waiting d minutes
Rate(rating, d) ==
  /\ card.reps < MaxReps
  /\ now' = now + d
  /\ card' = schedule_card(card, rating, now + d)
  /\ prevCard' = card
  /\ lastRating' = rating
  /\ UNCHANGED << placementVars, reviewVars, functionVars, clientVars >>

NextFsrs == \E rating \in Rating, d \in Delays : Rate(rating, d)

SpecFsrs == InitFsrs /\ [][NextFsrs]_vars


-----------------------------------------------------------------------------
(* Scheduler walk with one rating every thirty days                        *)

\* number of ratings applied to one card on the long walk
MaxLongReps == 8

\* schedule_card(card, rating, now) thirty days after the last rating
RateMonthly(rating) ==
  /\ card.reps < MaxLongReps
  /\ now' = now + 30 * MinutesPerDay
  /\ card' = schedule_card(card, rating, now + 30 * MinutesPerDay)
  /\ prevCard' = card
  /\ lastRating' = rating
  /\ UNCHANGED << placementVars, reviewVars, functionVars, clientVars >>

NextFsrsMonthly == \E rating \in Rating : RateMonthly(rating)

SpecFsrsMonthly == InitFsrs /\ [][NextFsrsMonthly]_vars

-----------------------------------------------------------------------------
(* Scheduler claims                                                        *)

\* C1: after every rating the resulting card has scheduled_days = 0 if and
\* only if its state is NEW, LEARNING or RELEARNING, so every card in REVIEW
\* has scheduled_days >= 1.
C1_ScheduledDaysZeroIffLearning ==
  lastRating # 0 =>
    ((card.scheduled_days = 0) <=> (card.state \in {"NEW", "LEARNING", "RELEARNING"}))

\* C7: AGAIN on a REVIEW card yields RELEARNING, one more lapse,
\* scheduled_days = 0 and due = now + 10 minutes; any other rating on a
\* REVIEW card keeps it in REVIEW with the same lapses and
\* 1 <= scheduled_days <= 36500.
C7_ReviewCardRating ==
  (lastRating # 0 /\ prevCard.state = "REVIEW") =>
    IF lastRating = AGAIN
    THEN /\ card.state = "RELEARNING"
         /\ card.lapses = prevCard.lapses + 1
         /\ card.scheduled_days = 0
         /\ card.due = now + 10
    ELSE /\ card.state = "REVIEW"
         /\ card.lapses = prevCard.lapses
         /\ card.scheduled_days >= 1
         /\ card.scheduled_days <= 36500

\* a REVIEW card has been rated AGAIN and has lapsed
C7_Witness ==
  /\ prevCard.state = "REVIEW"
  /\ lastRating = AGAIN
  /\ card.state = "RELEARNING"
  /\ card.lapses = prevCard.lapses + 1

\* C8: every card produced by schedule_card has difficulty within [1, 10]
\* and stability >= 0.1.
C8_MemoryStateRange ==
  lastRating # 0 =>
    /\ card.difficulty >= 1 * SCALE
    /\ card.difficulty <= 10 * SCALE
    /\ card.stability >= SCALE \div 10

\* a rated card whose difficulty was clamped at 10 and, before it, one whose
\* stability was clamped at 0.1
C8_Witness ==
  /\ lastRating # 0
  /\ card.difficulty = 10 * SCALE
  /\ prevCard.stability = SCALE \div 10

\* C26: the first rating of a NEW card at time now gives reps = 1 and, for
\* AGAIN, state LEARNING, lapses = 1, scheduled_days = 0, due = now + 1 minute;
\* for HARD, lapses = 0, scheduled_days = 0, due = now + 10 minutes; for GOOD,
\* state REVIEW, lapses = 0, scheduled_days = 1, due = now + 1 day; for EASY,
\* state REVIEW, lapses = 0, scheduled_days = 4, due = now + 4 days
C26_FirstRatingSchedule ==
  (lastRating # 0 /\ prevCard.state = "NEW") =>
    /\ card.reps = 1
    /\ lastRating = AGAIN =>
         /\ card.state = "LEARNING"
         /\ card.lapses = 1
         /\ card.scheduled_days = 0
         /\ card.due = now + 1
    /\ lastRating = HARD =>
         /\ card.lapses = 0
         /\ card.scheduled_days = 0
         /\ card.due = now + 10
    /\ lastRating = GOOD =>
         /\ card.state = "REVIEW"
         /\ card.lapses = 0
         /\ card.scheduled_days = 1
         /\ card.due = now + MinutesPerDay
    /\ lastRating = EASY =>
         /\ card.state = "REVIEW"
         /\ card.lapses = 0
         /\ card.scheduled_days = 4
         /\ card.due = now + 4 * MinutesPerDay

\* a new card has been rated HARD and is due ten minutes later
C26_Witness ==
  /\ prevCard.state = "NEW"
  /\ lastRating = HARD
  /\ card.reps = 1
  /\ card.due = now + 10

\* C27: after the first rating r of a NEW card, stability is max(0.1, w[r-1])
\* and difficulty is clamp(w[4] - w[r+3], 1, 10) for the rating given, r in
\* HARD, GOOD, EASY
C27_FirstRatingMemoryState ==
  (lastRating # 0 /\ prevCard.state = "NEW") =>
    /\ card.stability = Max2(SCALE \div 10, w(lastRating - 1))
    /\ lastRating \in { HARD, GOOD, EASY } =>
         card.difficulty =
           Min2(10 * SCALE, Max2(SCALE, w(4) - w(lastRating + 3)))

\* C28: AGAIN on a card in LEARNING or RELEARNING leaves state, stability and
\* difficulty unchanged, sets scheduled_days = 0 and due = now + 1 minute,
\* and adds exactly one lapse
C28_AgainWhileLearning ==
  (lastRating = AGAIN /\ prevCard.state \in { "LEARNING", "RELEARNING" }) =>
    /\ card.state = prevCard.state
    /\ card.stability = prevCard.stability
    /\ card.difficulty = prevCard.difficulty
    /\ card.scheduled_days = 0
    /\ card.due = now + 1
    /\ card.lapses = prevCard.lapses + 1

\* a RELEARNING card with two lapses has been rated AGAIN
C28_Witness ==
  /\ lastRating = AGAIN
  /\ prevCard.state = "RELEARNING"
  /\ card.state = "RELEARNING"
  /\ card.lapses = 3

\* C29: a rating other than AGAIN on a card in LEARNING or RELEARNING gives
\* state REVIEW with the same lapses and scheduled_days >= 1; EASY gives
\* scheduled_days >= 4; HARD or GOOD on a LEARNING card gives the interval
\* of 1 day with stability and difficulty unchanged
C29_GraduationFromLearning ==
  (lastRating \in { HARD, GOOD, EASY }
     /\ prevCard.state \in { "LEARNING", "RELEARNING" }) =>
    /\ card.state = "REVIEW"
    /\ card.lapses = prevCard.lapses
    /\ card.scheduled_days >= 1
    /\ lastRating = EASY => card.scheduled_days >= 4
    /\ (lastRating \in { HARD, GOOD } /\ prevCard.state = "LEARNING") =>
         /\ card.scheduled_days = 1
         /\ card.due = now + MinutesPerDay
         /\ card.stability = prevCard.stability
         /\ card.difficulty = prevCard.difficulty

\* a LEARNING card has graduated with EASY
C29_Witness ==
  /\ lastRating = EASY
  /\ prevCard.state = "LEARNING"
  /\ card.state = "REVIEW"
  /\ card.scheduled_days = 4

\* C33: for every card reachable from init_card, scheduled_days never
\* exceeds maximum_interval (36500 days), also when a RELEARNING card
\* graduates with HARD or EASY
C33_ScheduledDaysAtMostMaximum ==
  card.scheduled_days <= 36500

\* C34: every rating adds exactly 1 to reps, and exactly 1 to lapses when it
\* is AGAIN and nothing otherwise, so that 0 <= lapses <= reps
C34_RepsAndLapsesCount ==
  /\ lastRating # 0 =>
       /\ card.reps = prevCard.reps + 1
       /\ card.lapses = prevCard.lapses + (IF lastRating = AGAIN THEN 1 ELSE 0)
  /\ card.lapses >= 0
  /\ card.lapses <= card.reps

\* a card rated three times, AGAIN twice and then GOOD
C34_Witness ==
  /\ card.reps = 3
  /\ card.lapses = 2
  /\ lastRating = GOOD

\* C35: a rated card is never NEW again and is in LEARNING or REVIEW after
\* the first rating; LEARNING is entered only by AGAIN on a NEW card,
\* RELEARNING only by AGAIN on a REVIEW card; a rating other than AGAIN on a
\* card that is not NEW leads to REVIEW
C35_NoWayBack ==
  lastRating # 0 =>
    /\ card.state # "NEW"
    /\ prevCard.state = "NEW" => card.state \in { "LEARNING", "REVIEW" }
    /\ (card.state = "LEARNING" /\ prevCard.state # "LEARNING") =>
         (prevCard.state = "NEW" /\ lastRating = AGAIN)
    /\ (card.state = "RELEARNING" /\ prevCard.state # "RELEARNING") =>
         (prevCard.state = "REVIEW" /\ lastRating = AGAIN)
    /\ (prevCard.state # "NEW" /\ lastRating # AGAIN) => card.state = "REVIEW"

\* a card that lapsed from REVIEW has come back to REVIEW
C35_Witness ==
  /\ prevCard.state = "RELEARNING"
  /\ lastRating = GOOD
  /\ card.state = "REVIEW"
  /\ card.lapses >= 1

-----------------------------------------------------------------------------
(* Placement claims                                                        *)

\* the response log of a session, in insertion order
SessionLog(responses, session_id) ==
  SelectSeq(responses, LAMBDA row : row.session_id = session_id)

\* C2 as stated: in every state a complete placement session has
\* 7 <= items_completed <= 12, on every completion path.
C2_CompleteBetweenMinAndMax ==
  \A sid \in DOMAIN placement_sessions :
    placement_sessions[sid].is_complete =>
      /\ placement_sessions[sid].items_completed >= min_items
      /\ placement_sessions[sid].items_completed <= max_items

\* C2 amended: a placement/answer that completes the session through the
\* stop rule (its results carry items_completed) leaves the session complete
\* with 7 <= items_completed <= 12, and no complete session has more than 12;
\* completion forced by an empty candidate pool may come earlier.
C2_StopRuleBetweenMinAndMax ==
  /\ \A sid \in DOMAIN placement_sessions :
       placement_sessions[sid].is_complete =>
         placement_sessions[sid].items_completed <= max_items
  /\ (response.op = "answer" /\ response.complete /\ response.items_completed # -1) =>
       /\ placement_sessions[response.session_id].is_complete
       /\ placement_sessions[response.session_id].items_completed
            = response.items_completed
       /\ response.items_completed >= min_items
       /\ response.items_completed <= max_items

C2_Witness ==
  /\ response.op = "answer"
  /\ response.complete
  /\ response.items_completed = 8
  /\ placement_sessions[response.session_id].is_complete
  /\ Len(SessionLog(placement_responses, response.session_id)) = 8

\* C3: the item returned as next by placement/answer is never the item of
\* a row of the session's response log.
C3_NextItemNotAnswered ==
  (response.op = "answer" /\ response.ok /\ ~ response.complete) =>
    \A i \in 1..Len(placement_responses) :
      placement_responses[i].session_id = response.session_id =>
        placement_responses[i].card_id # response.item

\* C4: once a session is complete its row and its response log never change
\* again, and every placement/answer on it fails.
C4_CompleteSessionImmutable ==
  [][ \A sid \in DOMAIN placement_sessions :
        placement_sessions[sid].is_complete =>
          /\ placement_sessions'[sid] = placement_sessions[sid]
          /\ SessionLog(placement_responses', sid)
               = SessionLog(placement_responses, sid)
          /\ (response' # response /\ response'.op = "answer"
                /\ response'.session_id = sid) => ~ response'.ok ]_vars

C4_Witness ==
  /\ response.op = "answer"
  /\ ~ response.ok
  /\ response.detail = "Session already complete"
  /\ placement_sessions[response.session_id].is_complete
  /\ placement_sessions[response.session_id].items_completed = 8

\* C5: the answers of a session are applied one after the other: each row of
\* the response log starts from the theta and SE the row before it ended
\* with, and items_completed counts the rows.
C5_AnswersAppliedInOrder ==
  \A sid \in DOMAIN placement_sessions :
    LET log == SessionLog(placement_responses, sid)
    IN  /\ \A i \in 1..(Len(log) - 1) :
             /\ log[i + 1].theta_before = log[i].theta_after
             /\ log[i + 1].se_before = log[i].se_after
        /\ placement_sessions[sid].items_completed = Len(log)

-----------------------------------------------------------------------------
(* Review claims                                                           *)

\* the reviews logged for a (learner, item) key
LoggedReviews(username, card_id) ==
  { i \in 1..Len(review_log) :
      review_log[i].user_id = username /\ review_log[i].card_id = card_id }

\* C6: reviews of the same (learner, item) key are applied one after the
\* other, so the stored memory state has one repetition for every review
\* logged for the key (two after two requests).
C6_ReviewsSerialized ==
  \A row \in user_cards :
    row.reps = Cardinality(LoggedReviews(row.user_id, row.card_id))

-----------------------------------------------------------------------------
(* Engine function claims                                                  *)

\* C9: on a non-empty pool select_next_item returns the item of maximal
\* Fisher information, which is an item of minimal distance to theta, and
\* the first such item of the pool; it returns no item only on the empty
\* pool.
C9_SelectMaxInformation ==
  (args.fn = "select_next_item" /\ result.returned) =>
    LET pool == args.available_items
        information(i) == item_information(args.current_theta, pool[i].theta)
        distance(i) == Abs(args.current_theta - pool[i].theta)
    IN  IF pool = << >>
        THEN result.value = NoItem
        ELSE \E k \in 1..Len(pool) :
               /\ result.value = pool[k]
               /\ \A i \in 1..Len(pool) : information(i) <= information(k)
               /\ \A i \in 1..(k - 1) : information(i) < information(k)
               /\ \A i \in 1..Len(pool) : distance(k) <= distance(i)

C9_Witness ==
  /\ args.fn = "select_next_item"
  /\ result.returned
  /\ Len(args.available_items) = 3
  /\ result.value = args.available_items[2]
  /\ args.available_items[3].theta = args.available_items[2].theta
  /\ args.available_items[1].theta # args.available_items[2].theta

\* C10: for theta in [-3, 4] get_final_cefr returns the level nearest to
\* theta, and the lower level when theta is halfway between two levels.
C10_NearestLevelLowerOnTie ==
  (args.fn = "get_final_cefr" /\ result.returned) =>
    /\ result.value \in CefrSet
    /\ \A level \in CefrSet :
         \/ Abs(args.theta - cefr_levels(result.value))
              < Abs(args.theta - cefr_levels(level))
         \/ /\ Abs(args.theta - cefr_levels(result.value))
                 = Abs(args.theta - cefr_levels(level))
            /\ cefr_levels(result.value) <= cefr_levels(level)

C10_Witness ==
  /\ args.fn = "get_final_cefr"
  /\ result.returned
  /\ args.theta = PSCALE \div 2
  /\ result.value = "B1"

-----------------------------------------------------------------------------
(* Placement claims, continued                                             *)

\* 0.85^n for n = 1..8, rounded to eight decimals
SeTable ==
  << 85000000, 72250000, 61412500, 52200625,
     44370531, 37714952, 32057709, 27249053 >>

\* C11: while the pool is not exhausted, SE after n answers is 0.85^n (to
\* seven decimals), the session is not complete after any of the first 7
\* answers and is complete after the 8th, whatever the ratings.
C11_CompleteOnEighthAnswer ==
  \A sid \in DOMAIN placement_sessions :
    LET session == placement_sessions[sid]
        n == session.items_completed
    IN  /\ n = Len(SessionLog(placement_responses, sid))
        /\ n <= 8
        /\ n >= 1 => Abs(session.theta_se - SeTable[n]) <= 10
        /\ n = 0 => session.theta_se = PSCALE
        /\ session.is_complete <=> n = 8

C11_Witness ==
  /\ response.op = "answer"
  /\ response.complete
  /\ placement_sessions[response.session_id].items_completed = 8
  /\ \A user_answer \in RatingAnswers :
       \E i \in 1..Len(placement_responses) :
         placement_responses[i].user_response = user_answer

\* C12: only the ratings "1".."4" are applied to a session, "1" and "2" as
\* incorrect and "3" and "4" as correct; any other user_answer is rejected
\* and adds no row to the response log.
C12_OnlyRatingsApplied ==
  \A i \in 1..Len(placement_responses) :
    /\ placement_responses[i].user_response \in RatingAnswers
    /\ placement_responses[i].is_correct
         <=> placement_responses[i].user_response \in { "3", "4" }

\* C13: a placement/answer sent by a learner other than the owner of the
\* session is rejected.
C13_OnlyOwnerAnswers ==
  (response.op = "answer" /\ response.session_id \in DOMAIN placement_sessions
     /\ sender # placement_sessions[response.session_id].user_id) =>
    ~ response.ok

\* C14: placement/start with no card carrying a theta fails with "No
\* placement items available" and leaves the stored sessions as they were.
C14_FailedStartStoresNothing ==
  [][ (response' # response /\ response'.op = "start" /\ PlacementPool({}) = {}) =>
        /\ ~ response'.ok
        /\ response'.detail = "No placement items available"
        /\ placement_sessions' = placement_sessions ]_vars

C14_Witness ==
  /\ response.op = "start"
  /\ ~ response.ok
  /\ response.detail = "No placement items available"
  /\ PlacementPool({}) = {}
  /\ placement_sessions = << >>

\* C15: a complete session's owner has a profile whose CEFR class is the
\* session's final CEFR and whose theta is the session's final theta (as a
\* REAL column holds it), whether the session was completed by the stop
\* rule or by the empty pool.
C15_ProfileFollowsCompletion ==
  \A sid \in DOMAIN placement_sessions :
    placement_sessions[sid].is_complete =>
      LET user == simple_users[placement_sessions[sid].user_id]
      IN  /\ user.cefr_level = placement_sessions[sid].final_cefr
          /\ user.theta_estimate = Real4(placement_sessions[sid].final_theta)

\* C16: the CEFR class of every stored profile is a level nearest to the
\* profile's stored theta.
C16_ProfileClassQuantizesTheta ==
  \A username \in Users :
    LET user == simple_users[username]
    IN  user # NoRow =>
          /\ user.cefr_level \in CefrSet
          /\ \A level \in CefrSet :
               Abs(user.theta_estimate - cefr_levels(user.cefr_level))
                 <= Abs(user.theta_estimate - cefr_levels(level))

C16_Witness ==
  /\ response.op = "profile"
  /\ \E username \in Users, sid \in DOMAIN placement_sessions :
       /\ placement_sessions[sid].user_id = username
       /\ simple_users[username].last_placement_date # NoDate
       /\ simple_users[username].cefr_level # "B1"
       /\ simple_users[username].theta_estimate # placement_sessions[sid].final_theta

-----------------------------------------------------------------------------
(* Review claims, continued                                                *)

\* the items of a batch whose rating is one of 1..4
ValidItems(items) == { i \in 1..Len(items) : items[i].rating \in Rating }

\* C17: a batch with an item whose rating is not in 1..4 applies every
\* other item: the log grows by one entry for each item with a valid rating,
\* `updated` counts them, and no entry has a rating outside 1..4.
C17_InvalidRatingSkippedOnly ==
  [][ (args'.fn = "submit_reviews"
         /\ ValidItems(args'.items) # DOMAIN args'.items) =>
        /\ Len(review_log') = Len(review_log) + Cardinality(ValidItems(args'.items))
        /\ response'.updated = Cardinality(ValidItems(args'.items))
        /\ \A i \in 1..Len(review_log') : review_log'[i].rating \in Rating ]_vars

\* C18: no memory state and no review-log entry exists for an item id that
\* is not in the item store.
C18_UnknownItemSkipped ==
  /\ \A row \in user_cards : row.card_id \in cards
  /\ \A i \in 1..Len(review_log) : review_log[i].card_id \in cards


\* the batch of the last request for a session
Batch == result.value.items

\* the tier a position of the batch was filled from, by the counts of the
\* response's breakdown
TierOfPosition(i) ==
  LET b == result.value.session_breakdown
  IN  IF i <= b.due_cards THEN 1
      ELSE IF i <= b.due_cards + b.learning_cards THEN 2
      ELSE IF i <= b.due_cards + b.learning_cards + b.new_cards THEN 3
      ELSE 4

\* theta of the learner's current CEFR class, B1 for a learner without a
\* profile
TargetTheta(username) ==
  IF simple_users[username] = NoRow
  THEN cefr_levels("B1")
  ELSE cefr_levels(simple_users[username].cefr_level)

\* a card with a theta_item within one unit of the learner's target
ThetaInBand(username, id) ==
  /\ CardRow(id).has_theta
  /\ CardRow(id).theta >= TargetTheta(username) - PSCALE
  /\ CardRow(id).theta <= TargetTheta(username) + PSCALE

\* the items of the right language eligible for a tier
EligibleItems(username, k) ==
  { id \in { c \in cards : CardRow(c).language = "ru" } :
      LET memory == SelectFrom(user_cards, username, id)
      IN  CASE k = 1 -> /\ ThetaInBand(username, id)
                        /\ \E uc \in memory :
                             /\ uc.state \in { "review", "relearning" }
                             /\ uc.due_date <= DateOf(now)
            [] k = 2 -> /\ ThetaInBand(username, id)
                        /\ \E uc \in memory : uc.state = "learning"
            [] k = 3 -> ThetaInBand(username, id) /\ memory = {}
            [] OTHER -> TRUE }

\* a request for a session has been answered with a batch
BatchReturned ==
  /\ result.returned
  /\ args.fn = "sessions_next"
  /\ ~ result.value.error

\* C19: the batch is filled strictly by priority tier: every position holds
\* an item eligible for the tier it was filled from; when an item eligible
\* for tier k is left out, the batch holds exactly N items and none of them
\* comes from a tier after k; when a due tier-1 card is left out, every
\* tier-1 card of the batch has a due date no later than the omitted card's
C19_BatchFilledByTier ==
  BatchReturned =>
    /\ \A i \in DOMAIN Batch :
         Batch[i].card_id \in EligibleItems(args.username, TierOfPosition(i))
    /\ \A k \in 1..4 :
         \A id \in EligibleItems(args.username, k) :
           (\A i \in DOMAIN Batch : Batch[i].card_id # id) =>
             /\ Len(Batch) = args.count
             /\ \A i \in DOMAIN Batch : TierOfPosition(i) <= k
             /\ k = 1 =>
                  \A i \in DOMAIN Batch :
                    \A uc \in SelectFrom(user_cards, args.username, id) :
                      Batch[i].due_date <= uc.due_date

\* a batch of two due cards that leaves out a due card of a later date
C19_Witness ==
  /\ BatchReturned
  /\ Len(Batch) = 2
  /\ \E id \in EligibleItems(args.username, 1) :
       /\ \A i \in DOMAIN Batch : Batch[i].card_id # id
       /\ \E uc \in SelectFrom(user_cards, args.username, id) :
            Batch[1].due_date < uc.due_date

\* C20: every item a batch takes from tiers 1-3 has a theta_item within
\* [theta_target - 1, theta_target + 1]; an item outside the band or without
\* theta_item is in a batch only as overflow, when tiers 1-3 together
\* supply fewer than N items
C20_BandInPriorityTiers ==
  BatchReturned =>
    \A i \in DOMAIN Batch :
      /\ TierOfPosition(i) <= 3 => ThetaInBand(args.username, Batch[i].card_id)
      /\ ~ ThetaInBand(args.username, Batch[i].card_id) =>
           /\ TierOfPosition(i) = 4
           /\ result.value.session_breakdown.due_cards
                + result.value.session_breakdown.learning_cards
                + result.value.session_breakdown.new_cards < args.count

\* a batch with an item of a priority tier followed by an overflow item
\* outside the band
C20_Witness ==
  /\ BatchReturned
  /\ \E i, j \in DOMAIN Batch :
       /\ TierOfPosition(i) <= 3
       /\ TierOfPosition(j) = 4
       /\ ~ ThetaInBand(args.username, Batch[j].card_id)

\* C21: sessions/next does not fail for lack of content: every request with
\* a count that is not negative gets a normal response; when no item of the
\* store lies in the learner's band, tiers 1-3 contribute nothing and the
\* batch holds overflow items only; when the store holds no item, the
\* response is a normal one with an empty items list
C21_NoFailureForLackOfContent ==
  (result.returned /\ args.fn = "sessions_next" /\ args.count >= 0) =>
    /\ ~ result.value.error
    /\ (\A id \in cards : ~ (CardRow(id).language = "ru"
                             /\ ThetaInBand(args.username, id))) =>
         /\ result.value.session_breakdown.due_cards = 0
         /\ result.value.session_breakdown.learning_cards = 0
         /\ result.value.session_breakdown.new_cards = 0
         /\ \A i \in DOMAIN Batch : TierOfPosition(i) = 4
    /\ cards = {} => Batch = << >>

\* a learner whose band holds no item gets a full batch of overflow items
C21_Witness ==
  /\ BatchReturned
  /\ args.count = 2
  /\ Len(Batch) = 2
  /\ \A id \in cards : ~ ThetaInBand(args.username, id)
  /\ \A i \in DOMAIN Batch : TierOfPosition(i) = 4

\* a request on an empty store gets an empty batch
C21_WitnessEmptyStore ==
  BatchReturned /\ cards = {} /\ args.count > 0 /\ Batch = << >>

\* the credit entries of the last call of distribute_contextual_credit
Credits == result.value

CreditsReturned == result.returned /\ args.fn = "distribute_contextual_credit"

\* the positions of the PRIMARY entries
PrimaryEntries == { i \in DOMAIN Credits : Credits[i].credit_type = "PRIMARY" }

\* C22: every list distribute_contextual_credit returns holds exactly one
\* PRIMARY entry: not several when the target occurs more than once, and
\* never a list without one when the target does not survive tokenization
C22_ExactlyOnePrimary ==
  CreditsReturned => Cardinality(PrimaryEntries) = 1

\* C23: every PRIMARY entry has adjusted_rating equal to the input rating
\* and credit_multiplier 1.0, also when the target is a structural word
C23_PrimaryKeepsRating ==
  CreditsReturned =>
    \A i \in PrimaryEntries :
      /\ Credits[i].adjusted_rating = args.user_rating
      /\ Credits[i].credit_multiplier = SCALE

\* a structural target word rated EASY has given a PRIMARY entry
C23_Witness ==
  /\ CreditsReturned
  /\ args.target_word \in structural_words
  /\ args.user_rating = EASY
  /\ PrimaryEntries # {}

\* C24: every entry has a multiplier greater than 0 and at most 1, and a
\* list for rating AGAIN holds no STRUCTURAL entry
C24_MultiplierRange ==
  CreditsReturned =>
    /\ \A i \in DOMAIN Credits :
         Credits[i].credit_multiplier > 0 /\ Credits[i].credit_multiplier <= SCALE
    /\ args.user_rating = AGAIN =>
         \A i \in DOMAIN Credits : Credits[i].credit_type # "STRUCTURAL"

\* a sentence with a structural word that is not the target, rated AGAIN,
\* has given a list with a SUPPORTING entry
C24_Witness ==
  /\ CreditsReturned
  /\ args.user_rating = AGAIN
  /\ \E i \in DOMAIN args.sentence :
       args.sentence[i] \in structural_words /\ args.sentence[i] # args.target_word
  /\ \E i \in DOMAIN Credits : Credits[i].credit_type = "SUPPORTING"

\* C25: an entry that is not PRIMARY has the learner's rating when that is
\* AGAIN, HARD or GOOD and GOOD when it is EASY; with EASY a SUPPORTING word
\* has multiplier 0.72
C25_ConservativeRating ==
  CreditsReturned =>
    \A i \in DOMAIN Credits \ PrimaryEntries :
      /\ Credits[i].adjusted_rating =
           (IF args.user_rating = EASY THEN GOOD ELSE args.user_rating)
      /\ (args.user_rating = EASY /\ Credits[i].credit_type = "SUPPORTING") =>
           Credits[i].credit_multiplier = 72 * (SCALE \div 100)

\* a list for rating EASY with the PRIMARY entry, a SUPPORTING one and a
\* STRUCTURAL one
C25_Witness ==
  /\ CreditsReturned
  /\ args.user_rating = EASY
  /\ PrimaryEntries # {}
  /\ \E i, j \in DOMAIN Credits :
       /\ Credits[i].credit_type = "SUPPORTING"
       /\ Credits[j].credit_type = "STRUCTURAL"

\* C30: in every state of a placement session theta is within [-3, 4],
\* whatever the starting level, and one answer changes theta by at most 1.0,
\* whatever the item's theta and the rating
C30_ThetaRangeAndStep ==
  (result.returned /\ args.fn \in { "start_session", "update_ability" }) =>
    /\ result.value.theta >= 0 - 3 * PSCALE
    /\ result.value.theta <= 4 * PSCALE
    /\ args.fn = "update_ability" =>
         Abs(result.value.theta - args.current_theta) <= PSCALE

\* an answer has moved theta up to the bound of 4, where it was clamped
C30_Witness ==
  /\ result.returned
  /\ args.fn = "update_ability"
  /\ args.is_correct
  /\ args.current_theta < 4 * PSCALE
  /\ result.value.theta = 4 * PSCALE


-----------------------------------------------------------------------------
(* Review claims: atomicity of one review                                  *)

\* the number of entries of the review log for a learner and an item
LogEntriesFor(user_id, card_id) ==
  Cardinality({ i \in 1..Len(review_log) :
                  /\ review_log[i].user_id = user_id
                  /\ review_log[i].card_id = card_id })

\* C32: after any sequence of batches handled one after the other, also
\* with failing items, every stored memory state has as many reps as the
\* review log has entries for its learner and item, and every logged pair
\* has a memory state: a review is applied as a whole or not at all.
C32_ReviewAppliedOrDiscarded ==
  /\ \A row \in user_cards : row.reps = LogEntriesFor(row.user_id, row.card_id)
  /\ \A i \in 1..Len(review_log) :
       SelectFrom(user_cards, review_log[i].user_id, review_log[i].card_id) # {}

C32_Witness ==
  /\ args.fn = "submit_reviews"
  /\ \E i \in DOMAIN args.items :
       /\ args.items[i].rating \in Rating
       /\ args.items[i].response_time_ms >= int4_limit
       /\ SelectFrom(user_cards, args.items[i].username, args.items[i].card_id) = {}
  /\ \E row \in user_cards : row.reps = 1 /\ LogEntriesFor(row.user_id, row.card_id) = 1


-----------------------------------------------------------------------------
(* The requests of the service, one at a time                              *)

\* get_user_stats: the four SELECTs on review_log (the last one joined
\* with cards); accuracy_percentage in tenths of a percent
get_user_stats(username) ==
  LET mine == { i \in 1..Len(review_log) : review_log[i].user_id = username }
      total_reviews == Cardinality(mine)
      good_reviews == Cardinality({ i \in mine : review_log[i].rating >= 3 })
      daily_activity ==
        { DateOf(review_log[i].ts) :
            i \in { j \in mine : DateOf(review_log[j].ts) >= DateOf(now) - 30 } }
  IN  [ username |-> username,
        total_reviews |-> total_reviews,
        accuracy_percentage |->
          IF total_reviews > 0
          THEN (2 * 1000 * good_reviews + total_reviews) \div (2 * total_reviews)
          ELSE 0,
        study_streak_days |-> Cardinality(daily_activity),
        language_breakdown |->
          [ language \in { CardRow(id).language : id \in cards } |->
              Cardinality({ i \in mine :
                              /\ review_log[i].card_id \in cards
                              /\ CardRow(review_log[i].card_id).language = language }) ] ]

\* number of review-log rows
MaxServiceReviews == 2

\* number of placement/answer requests answered
MaxServiceAnswers == 1

\* count of a NextRequest of the service
ServiceCounts == { 1, 2 }

\* POST /v1/reviews with one ReviewItem
ServiceReviews(item) ==
  /\ Len(review_log) < MaxServiceReviews
  /\ args' = [ fn |-> "submit_reviews", items |-> << item >> ]
  /\ submit_reviews(<< item >>)
  /\ result' = NoResult
  /\ UNCHANGED << reviews_in_flight, cards, placement_sessions, placement_responses,
                  simple_users, answers_in_flight >>
  /\ UNCHANGED << fsrsVars, clientVars >>

\* POST /v1/sessions/next
ServiceSessionsNext(username, count) ==
  /\ args' = [ fn |-> "sessions_next", username |-> username, count |-> count ]
  /\ \E returned \in sessions_next(username, count) :
       result' = [ returned |-> TRUE, value |-> returned ]
  /\ UNCHANGED << fsrsVars, placementVars, reviewVars, clientVars >>

\* POST /v1/placement/start
ServicePlacementStart(username, claimed_level) ==
  /\ placement_sessions = << >>
  /\ args' = [ fn |-> "start_placement_test", username |-> username ]
  /\ \E order \in RandomOrders(PlacementPool({}), 50) :
       start_placement_test(username, "ru", claimed_level, order)
  /\ result' = NoResult
  /\ UNCHANGED << cards, placement_responses, simple_users, answers_in_flight >>
  /\ UNCHANGED << fsrsVars, reviewVars, clientVars >>

\* POST /v1/placement/answer
ServicePlacementAnswer(session_id, card_id, user_answer) ==
  /\ Len(placement_responses) < MaxServiceAnswers
  /\ args' = [ fn |-> "submit_placement_answer", session_id |-> session_id ]
  /\ submit_placement_answer(session_id, card_id, user_answer)
  /\ result' = NoResult
  /\ UNCHANGED << cards, answers_in_flight >>
  /\ UNCHANGED << fsrsVars, reviewVars, clientVars >>

\* GET /v1/user/{username}
ServiceUserProfile(username) ==
  /\ args' = [ fn |-> "get_user_profile", username |-> username ]
  /\ get_user_profile(username)
  /\ result' = NoResult
  /\ UNCHANGED << cards, placement_sessions, placement_responses,
                  answers_in_flight >>
  /\ UNCHANGED << fsrsVars, reviewVars, clientVars >>

\* GET /v1/stats/{username}
ServiceUserStats(username) ==
  /\ args' = [ fn |-> "get_user_stats", username |-> username ]
  /\ result' = [ returned |-> TRUE, value |-> get_user_stats(username) ]
  /\ UNCHANGED << fsrsVars, placementVars, reviewVars, clientVars >>

NextService ==
  \/ \E item \in ReviewItems : ServiceReviews(item)
  \/ \E username \in Users, count \in ServiceCounts :
       ServiceSessionsNext(username, count)
  \/ \E username \in Users, claimed_level \in ClaimedLevels :
       ServicePlacementStart(username, claimed_level)
  \/ \E session_id \in SessionIds, card_id \in CardIds, user_answer \in Answers :
       ServicePlacementAnswer(session_id, card_id, user_answer)
  \/ \E username \in Users : ServiceUserProfile(username)
  \/ \E username \in Users : ServiceUserStats(username)

SpecService == InitReviews /\ [][NextService]_vars

\* C31: only a review submission changes the memory states and the review
\* log: session composition, placement/start, placement/answer and the
\* profile and statistics reads leave both unchanged; no request removes a
\* memory state, and the review log only grows at its end.
C31_OnlyReviewsChangeMemory ==
  [][ /\ args'.fn # "submit_reviews" => UNCHANGED << user_cards, review_log >>
      /\ \A row \in user_cards :
           SelectFrom(user_cards', row.user_id, row.card_id) # {}
      /\ Len(review_log') >= Len(review_log)
      /\ SubSeq(review_log', 1, Len(review_log)) = review_log ]_vars

C31_Witness ==
  /\ args.fn = "get_user_stats"
  /\ result.returned
  /\ result.value.total_reviews = 2
  /\ Cardinality(user_cards) = 2
  /\ placement_responses # << >>
  /\ simple_users["ann"] # NoRow


-----------------------------------------------------------------------------
(* Placement claims: direction and size of the ability update              *)

\* C36: an answer rated 3 or 4 never lowers theta and an answer rated 1 or
\* 2 never raises it; on an item whose theta is the session's theta a
\* rating of 1 moves theta by exactly -0.5 and a rating of 4 by exactly
\* +0.25, up to the clamp at the bounds of theta.
C36_DirectionAndStep ==
  (result.returned /\ args.fn = "update_ability") =>
    /\ args.is_correct => result.value.theta >= args.current_theta
    /\ ~ args.is_correct => result.value.theta <= args.current_theta
    /\ (args.item_theta = args.current_theta /\ args.confidence = PSCALE) =>
         result.value.theta =
           IF args.is_correct
           THEN Min2(4 * PSCALE, args.current_theta + PSCALE \div 4)
           ELSE Max2(0 - 3 * PSCALE, args.current_theta - PSCALE \div 2)

\* a rating of 1 on an item at the session's theta, away from the bounds
C36_Witness ==
  /\ result.returned
  /\ args.fn = "update_ability"
  /\ args.item_theta = args.current_theta
  /\ ~ args.is_correct
  /\ args.confidence = PSCALE
  /\ result.value.theta = args.current_theta - PSCALE \div 2
  /\ result.value.theta > 0 - 3 * PSCALE


-----------------------------------------------------------------------------
(* Placement claims: the session row and its response log                  *)

\* C37: in every state of a placement session whose requests are handled
\* one at a time, also after a completion forced by an empty pool, the
\* session's items_completed is the number of its response rows, and its
\* theta and se are the theta_after and se_after of its last response row
\* (the values of start_session while it has none).
C37_SessionMatchesResponseLog ==
  \A sid \in DOMAIN placement_sessions :
    LET session == placement_sessions[sid]
        log == SessionLog(placement_responses, sid)
    IN  /\ session.items_completed = Len(log)
        /\ IF log = << >>
           THEN /\ session.theta_se = initial_se
                /\ session.current_theta
                     \in { start_session(level).theta : level \in ClaimedLevels }
           ELSE /\ session.current_theta = log[Len(log)].theta_after
                /\ session.theta_se = log[Len(log)].se_after


-----------------------------------------------------------------------------
(* Session composer claims: size of the batch and repeated items           *)

\* C38: for a count N >= 1 the batch holds at most N items and no item id
\* twice, whatever the store holds: the three priority tiers share no item
\* and the overflow leaves out every item already chosen.
C38_AtMostCountNoRepeats ==
  (BatchReturned /\ args.count >= 1) =>
    /\ Len(Batch) <= args.count
    /\ \A i, j \in DOMAIN Batch : Batch[i].card_id = Batch[j].card_id => i = j

\* a full batch of three items drawn from a priority tier and the overflow
C38_Witness ==
  /\ BatchReturned
  /\ args.count = 3
  /\ Len(Batch) = 3
  /\ result.value.session_breakdown.due_cards >= 1
  /\ result.value.session_breakdown.new_cards >= 1
  /\ result.value.session_breakdown.total
       > result.value.session_breakdown.due_cards
           + result.value.session_breakdown.learning_cards
           + result.value.session_breakdown.new_cards


-----------------------------------------------------------------------------
(* Contextual review: src/api/contextual_fsrs_integration.py               *)

\* no lexeme: the lookup in word_forms found no row
NoLexeme == << "lexeme", "" >>

\* SELECT l.id FROM lexemes l JOIN word_forms wf ... WHERE wf.form = word
\* LIMIT 1, on a table that holds the plain forms of the verb (lexeme
\* "est"), of the other content word and of the structural word
LexemeOfForm(word) ==
  IF word = Word("est") THEN << "lexeme", "est" >>
  ELSE IF word = Word("khochu") THEN << "lexeme", "khotet" >>
  ELSE IF word = Word("ne") THEN << "lexeme", "ne" >>
  ELSE NoLexeme

\* SELECT * FROM user_lexemes WHERE user_id = ... AND lexeme_id = ..., on the
\* rows of one user
SelectLexeme(rows, lexeme_id) == { row \in rows : row.lexeme_id = lexeme_id }

\* the body of "for credit in credits": the rows of user_lexemes, the
\* lexemes schedule_card was called for, and the counters after one credit.
\* A stored last_review comes back from its TIMESTAMPTZ column offset-aware
\* and schedule_card(card, rating, datetime.now()) raises TypeError on it;
\* nothing catches the exception
contextual_credit(st, credit, target_lexeme_id, t) ==
  LET lexeme_id == IF credit.credit_type = "PRIMARY"
                   THEN target_lexeme_id
                   ELSE LexemeOfForm(credit.word)
      user_lexeme == SelectLexeme(st.rows, lexeme_id)
      loaded == IF user_lexeme = {}
                THEN init_card(t)
                ELSE (CHOOSE row \in user_lexeme : TRUE).card
      updated_card == schedule_card(loaded, credit.adjusted_rating, t)
  IN  IF st.raised THEN st
      ELSE IF lexeme_id = NoLexeme THEN st
      ELSE IF credit.adjusted_rating \notin Rating
      THEN [ st EXCEPT !.raised = TRUE ]
      ELSE IF loaded.last_review # NoReview
      THEN [ st EXCEPT !.invoked = Append(@, lexeme_id), !.raised = TRUE ]
      ELSE [ st EXCEPT
               !.rows = { row \in st.rows : row.lexeme_id # lexeme_id }
                          \cup { [ lexeme_id |-> lexeme_id, card |-> updated_card ] },
               !.invoked = Append(@, lexeme_id),
               !.primary_updates =
                  IF credit.credit_type = "PRIMARY" THEN @ + 1 ELSE @,
               !.supporting_updates =
                  IF credit.credit_type = "PRIMARY" THEN @ ELSE @ + 1 ]

RECURSIVE ContextualLoop(_, _, _, _, _)
\* for credit in credits, from the i-th credit on
ContextualLoop(st, credits, i, target_lexeme_id, t) ==
  IF i > Len(credits)
  THEN st
  ELSE ContextualLoop(contextual_credit(st, credits[i], target_lexeme_id, t),
                      credits, i + 1, target_lexeme_id, t)

\* process_contextual_review on the user_lexemes rows of user_id: the
\* results, the rows written, the lexemes schedule_card was called for, and
\* whether the call raised instead of returning
process_contextual_review(sentence, target_lexeme_id, target_word, user_rating, user_cefr, rows, t) ==
  LET credits ==
        distribute_contextual_credit(sentence, target_word, user_rating, user_cefr)
  IN  ContextualLoop([ primary_updates |-> 0, supporting_updates |-> 0,
                       total_words_credited |-> Len(credits),
                       rows |-> rows, invoked |-> << >>, raised |-> FALSE ],
                     credits, 1, target_lexeme_id, t)

\* target_lexeme_id of a call: the lexeme of the target word
TargetLexeme(target_word) == << "lexeme", target_word.letters >>

\* the user_lexemes rows of the learner before the call: none, and the
\* target lexeme as an earlier review of it left it
LexemeRows(target_lexeme_id) ==
  { {},
    { [ lexeme_id |-> target_lexeme_id,
        card |-> schedule_card(init_card(0), GOOD, 0) ] } }

InitContextual ==
  /\ SchedulerStart
  /\ PlacementStartOfService
  /\ ReviewsStartOfService
  /\ \E sentence \in Sentences, target_word \in TargetWords,
        user_rating \in Rating, user_cefr \in CreditLevels :
       \E rows \in LexemeRows(TargetLexeme(target_word)) :
         args = [ fn |-> "process_contextual_review", sentence |-> sentence,
                  target_lexeme_id |-> TargetLexeme(target_word),
                  target_word |-> target_word, user_rating |-> user_rating,
                  user_cefr |-> user_cefr, rows |-> rows ]
  /\ result = NoResult

ContextualReview ==
  /\ ~ result.returned
  /\ result' = [ returned |-> TRUE,
                 value |-> process_contextual_review(
                             args.sentence, args.target_lexeme_id,
                             args.target_word, args.user_rating,
                             args.user_cefr, args.rows, now) ]
  /\ UNCHANGED args
  /\ UNCHANGED << fsrsVars, placementVars, reviewVars, clientVars >>

NextContextual == ContextualReview

SpecContextual == InitContextual /\ [][NextContextual]_vars

\* the number of calls of schedule_card for a lexeme during the review
SchedulerCalls(lexeme_id) ==
  Cardinality({ i \in DOMAIN result.value.invoked :
                  result.value.invoked[i] = lexeme_id })

\* the sentence holds the target word, whatever its capital and its mark
SentenceHasTarget ==
  \E i \in DOMAIN args.sentence :
    lower_strip(args.sentence[i]) = lower_strip(args.target_word)

\* C39: one sentence review calls the scheduler exactly once for the target
\* lexeme when the sentence holds the target word, and at most once for any
\* other lexeme, also when a word occurs several times; the review then
\* returns primary_updates = 1.
C39_OneSchedulerCallPerLexeme ==
  (result.returned /\ args.fn = "process_contextual_review") =>
    /\ \A i \in DOMAIN result.value.invoked :
         SchedulerCalls(result.value.invoked[i]) <= 1
    /\ SentenceHasTarget =>
         /\ SchedulerCalls(args.target_lexeme_id) = 1
         /\ ~ result.value.raised
         /\ result.value.primary_updates = 1

=============================================================================
